---------------------------- MODULE Spec2Model ----------------------------
(***************************************************************************)
(* A model of libp11's RSA sign/decrypt interception layer                 *)
(* (src/src/p11_pkey.c) and of the engine's object lookup and login        *)
(* (src/src/util_uri.c).                                                   *)
(*                                                                         *)
(* Part I models pkcs11_pkey_rsa_sign / pkcs11_pkey_rsa_decrypt as run by  *)
(* the threads of one PKCS11 context: every access to the shared state of  *)
(* the context (the rwlock, the two *_initialized flags, the token) is a   *)
(* step of its own, so that the threads interleave as the code lets them.  *)
(***************************************************************************)
EXTENDS Integers, Sequences, FiniteSets, TLC

VARIABLES
    \* ---- Part I: PKCS11_CTX_private and the threads calling the wrappers
    rwlock,              \* cpriv->rwlock: the thread holding it, or NoThread
    sign_initialized,    \* cpriv->sign_initialized
    decrypt_initialized, \* cpriv->decrypt_initialized
    pc,                  \* per thread: the place reached in the wrapper
    call,                \* per thread: the arguments and locals of its call
    span,                \* per thread: it issued a mechanism init whose
                         \* operation it has not yet completed or abandoned
    \* ---- Part II: ENGINE_CTX, the slots and one object lookup
    slot_list,           \* ctx->slot_list: the slots, each with its token
    logged_in,           \* the slots whose token session is logged in
    force_login,         \* ctx->force_login
    pin,                 \* ctx->pin: NoPin (NULL) or the buffer's content
    pin_length,          \* ctx->pin_length
    forced_pin,          \* ctx->forced_pin
    lk,                  \* the lookup under way and what it has done so far
    \* ---- Part III: the functions of util_uri.c taken one call at a time
    objsel,              \* a call of match_key or match_cert
    slotsel,             \* the slot matching of a ctx_try_load_object call
    pinmem,              \* the memory a PIN passes through
    search,              \* the search of the matched slots for the object
    parse,               \* a call of parse_slot_id_string
    \* ---- Part IV: p11_pkey.c and util_uri.c, further views
    mech,                \* the mechanism a sign or decrypt call hands over
    pinuse               \* the threads of a context at its PIN buffer

cryptoVars == <<rwlock, sign_initialized, decrypt_initialized, pc, call, span>>

lookupVars ==
    <<slot_list, logged_in, force_login, pin, pin_length, forced_pin, lk>>

laterVars == <<search, parse, mech, pinuse>>

callVars == <<objsel, slotsel, pinmem, laterVars>>

vars == <<cryptoVars, lookupVars, callVars>>

-----------------------------------------------------------------------------
(* Part I: the crypto operation interceptor                                *)

Threads == {"t1", "t2"}
NoThread == "none"

\* pkcs11_get_ex_data_rsa(rsa): the PKCS11_KEY attached to the RSA object,
\* NoKey for a software key. always_authenticate is an attribute of the key.
NoKey == "nokey"
Keys == {"k1", "k2"}
always_authenticate(k) == k = "k2"

\* EVP_PKEY_CTX_get_rsa_padding(): the padding modes a caller can set for the
\* operation. RSA_PKCS1_PADDING has the value of CKM_RSA_PKCS (1), the case
\* label of the decrypt switch.
SignPaddings == {"PSS", "PKCS1", "NONE"}
DecryptPaddings == {"OAEP", "PKCS1", "NONE"}

\* CK_RV as the code reads it: CKR_OK, or anything else (rv is only ever
\* tested against zero).
CKR_OK == "CKR_OK"
CKR_ERR == "CKR_ERR"
TokenRvs == {CKR_OK, CKR_ERR}

\* What the original software implementation can return: success or failure.
OrigRets == {1, -1}

IdleCall ==
    [op |-> "none", key |-> NoKey, padding |-> "NONE", outNull |-> FALSE,
     rv |-> CKR_OK, acquired |-> FALSE, issued |-> FALSE,
     flagWritten |-> FALSE, lenWritten |-> FALSE, tryRet |-> 0,
     origCalled |-> FALSE, origRet |-> 0, ret |-> 0]

NewCall(op, key, padding, outNull) ==
    [IdleCall EXCEPT !.op = op, !.key = key, !.padding = padding,
                     !.outNull = outNull]

\* The place after the mechanism init (or, for decrypt, after a skipped
\* init): authentication for an always_authenticate key while rv is zero,
\* the primitive while rv is zero, else the end of the token path.
AfterInit(c) ==
    IF c.rv = CKR_OK /\ always_authenticate(c.key) THEN "auth"
    ELSE IF c.rv = CKR_OK THEN "prim" ELSE "fin"

AfterAuth(c) == IF c.rv = CKR_OK THEN "prim" ELSE "fin"

\* pkcs11_pkey_rsa_sign / pkcs11_pkey_rsa_decrypt after the try function
\* returned tryRet for the call c: 1 is returned as it is; on -1 the original
\* software implementation is called with the same arguments and its result
\* r (success or failure) is returned.
Wrapper(c, tryRet, r) ==
    IF tryRet < 0
    THEN [c EXCEPT !.tryRet = tryRet, !.origCalled = TRUE, !.origRet = r,
                   !.ret = r]
    ELSE [c EXCEPT !.tryRet = tryRet, !.ret = tryRet]

\* try returned -1 before the lock and before any token call.
NotApplicable(t, c) ==
    /\ \E r \in OrigRets : call' = [call EXCEPT ![t] = Wrapper(c, -1, r)]
    /\ pc' = [pc EXCEPT ![t] = "done"]

\* The padding test of the sign path: only RSA_PKCS1_PSS_PADDING goes on.
SignPaddingOk(padding) == padding = "PSS"

\* The padding switch of the decrypt path: RSA_PKCS1_OAEP_PADDING and
\* CKM_RSA_PKCS (the value of RSA_PKCS1_PADDING) go on, the default case
\* returns -1.
DecryptPaddingOk(padding) == padding \in {"OAEP", "PKCS1"}

\* pkcs11_try_pkey_rsa_sign, from its entry to the call of
\* CRYPTO_THREAD_write_lock or, with sign_initialized set, to C_Sign.
\* lenOk: the digest could be read and tbslen == EVP_MD_size(sig_md);
\* paramsOk: pkcs11_params_pss() >= 0.
SignEntry(t) ==
    /\ pc[t] = "idle"
    /\ \E key \in Keys \cup {NoKey}, padding \in SignPaddings,
          outNull \in BOOLEAN, lenOk \in BOOLEAN, paramsOk \in BOOLEAN :
          LET c == NewCall("sign", key, padding, outNull) IN
          IF key = NoKey \/ ~lenOk
          THEN NotApplicable(t, c)
          ELSE IF ~sign_initialized
          THEN IF ~SignPaddingOk(padding) \/ ~paramsOk
               THEN NotApplicable(t, c)
               ELSE /\ call' = [call EXCEPT ![t] = c]
                    /\ pc' = [pc EXCEPT ![t] = "lock"]
          ELSE /\ call' = [call EXCEPT ![t] = c]
               /\ pc' = [pc EXCEPT ![t] = "prim"]
    /\ UNCHANGED <<rwlock, sign_initialized, decrypt_initialized, span, lookupVars, callVars>>

\* pkcs11_try_pkey_rsa_decrypt, from its entry to the call of
\* CRYPTO_THREAD_write_lock or, with decrypt_initialized set, to the
\* authentication test. paramsOk: pkcs11_params_oaep() >= 0.
DecryptEntry(t) ==
    /\ pc[t] = "idle"
    /\ \E key \in Keys \cup {NoKey}, padding \in DecryptPaddings,
          outNull \in BOOLEAN, paramsOk \in BOOLEAN :
          LET c == NewCall("decrypt", key, padding, outNull) IN
          IF key = NoKey
          THEN NotApplicable(t, c)
          ELSE IF ~decrypt_initialized
          THEN IF ~DecryptPaddingOk(padding)
                  \/ (padding = "OAEP" /\ ~paramsOk)
               THEN NotApplicable(t, c)
               ELSE /\ call' = [call EXCEPT ![t] = c]
                    /\ pc' = [pc EXCEPT ![t] = "lock"]
          ELSE /\ call' = [call EXCEPT ![t] = c]
               /\ pc' = [pc EXCEPT ![t] = AfterInit(c)]
    /\ UNCHANGED <<rwlock, sign_initialized, decrypt_initialized, span, lookupVars, callVars>>

\* CRYPTO_THREAD_write_lock(cpriv->rwlock): blocks while another thread holds
\* the lock. Locking a lock the caller already holds either blocks for ever
\* or fails with EDEADLK, which the code does not look at: the thread then
\* goes on as the holder.
WriteLock(t) ==
    /\ pc[t] = "lock"
    /\ rwlock \in {NoThread, t}
    /\ rwlock' = t
    /\ call' = [call EXCEPT ![t].acquired = TRUE]
    /\ pc' = [pc EXCEPT ![t] = "init"]
    /\ UNCHANGED <<sign_initialized, decrypt_initialized, span, lookupVars, callVars>>

\* C_SignInit / C_DecryptInit: the token answers CKR_OK or an error.
MechanismInit(t) ==
    /\ pc[t] = "init"
    /\ \E rv \in TokenRvs :
          LET c == [call[t] EXCEPT !.rv = rv, !.issued = TRUE] IN
          /\ call' = [call EXCEPT ![t] = c]
          /\ pc' = [pc EXCEPT ![t] = AfterInit(c)]
          /\ span' = [span EXCEPT ![t] = (rv = CKR_OK)]
    /\ UNCHANGED <<rwlock, sign_initialized, decrypt_initialized, lookupVars, callVars>>

\* pkcs11_authenticate(key), for a key with always_authenticate.
Authenticate(t) ==
    /\ pc[t] = "auth"
    /\ \E rv \in TokenRvs :
          LET c == [call[t] EXCEPT !.rv = rv] IN
          /\ call' = [call EXCEPT ![t] = c]
          /\ pc' = [pc EXCEPT ![t] = AfterAuth(c)]
          /\ span' = [span EXCEPT ![t] = span[t] /\ rv = CKR_OK]
    /\ UNCHANGED <<rwlock, sign_initialized, decrypt_initialized, lookupVars, callVars>>

\* C_Sign / C_Decrypt. The operation of the thread is completed by it unless
\* it was a successful size query (sig == NULL).
Primitive(t) ==
    /\ pc[t] = "prim"
    /\ \E rv \in TokenRvs :
          /\ call' = [call EXCEPT ![t].rv = rv, ![t].issued = TRUE]
          /\ span' = [span EXCEPT ![t] = span[t] /\ rv = CKR_OK
                                                  /\ call[t].outNull]
    /\ pc' = [pc EXCEPT ![t] = "fin"]
    /\ UNCHANGED <<rwlock, sign_initialized, decrypt_initialized, lookupVars, callVars>>

\* cpriv->sign_initialized = !rv && sig == NULL (resp. decrypt_initialized).
SetInitialized(t) ==
    /\ pc[t] = "fin"
    /\ LET v == call[t].rv = CKR_OK /\ call[t].outNull IN
       IF call[t].op = "sign"
       THEN sign_initialized' = v /\ UNCHANGED decrypt_initialized
       ELSE decrypt_initialized' = v /\ UNCHANGED sign_initialized
    /\ call' = [call EXCEPT ![t].flagWritten = TRUE]
    /\ pc' = [pc EXCEPT ![t] = "unlock"]
    /\ UNCHANGED <<rwlock, span, lookupVars, callVars>>

\* The unlock of a lock as the thread t finds it. Unlocking a lock another
\* thread holds is undefined: the lock is released (a plain rwlock) or left
\* alone (an owner-checking one). Unlocking a free lock leaves it free.
Unlocked(t, lock) ==
    IF lock = t THEN {NoThread} ELSE {NoThread, lock}

\* The value try returns once the lock is dealt with: -1 on a token error
\* and, for a decrypt into a caller's buffer smaller than the plaintext
\* (bufOk false), else 1 with *siglen / *outlen written.
TryResult(c, bufOk) ==
    IF c.rv # CKR_OK THEN -1
    ELSE IF c.op = "decrypt" /\ ~c.outNull /\ ~bufOk THEN -1
    ELSE 1

\* if (!cpriv->sign_initialized) CRYPTO_THREAD_unlock(cpriv->rwlock), the
\* flag being read again, then the rest of the call, which is local to the
\* thread: the return of try and the wrapper's choice.
Unlock(t) ==
    /\ pc[t] = "unlock"
    /\ LET flag == IF call[t].op = "sign" THEN sign_initialized
                   ELSE decrypt_initialized IN
       IF flag THEN UNCHANGED rwlock
       ELSE rwlock' \in Unlocked(t, rwlock)
    /\ \E bufOk \in BOOLEAN, r \in OrigRets :
          LET tr == TryResult(call[t], bufOk)
              c == [call[t] EXCEPT !.lenWritten = (tr = 1)] IN
          call' = [call EXCEPT ![t] = Wrapper(c, tr, r)]
    /\ pc' = [pc EXCEPT ![t] = "done"]
    /\ UNCHANGED <<sign_initialized, decrypt_initialized, span, lookupVars, callVars>>

\* The wrapper has returned; the thread is free to call again.
Return(t) ==
    /\ pc[t] = "done"
    /\ call' = [call EXCEPT ![t] = IdleCall]
    /\ pc' = [pc EXCEPT ![t] = "idle"]
    /\ UNCHANGED <<rwlock, sign_initialized, decrypt_initialized, span, lookupVars, callVars>>

-----------------------------------------------------------------------------
(* Part II: object lookup and login (util_uri.c)                           *)
(*                                                                         *)
(* One lookup is ctx_load_object: a pass of ctx_try_load_object without    *)
(* login and, when that returns nothing (or at once with force_login), a   *)
(* pass with login. Each pass is one step. The identifier is a pkcs11: URI *)
(* naming the token by its label, with or without a pin-value.             *)

\* slot->token of a slot without a token: NULL.
NoToken == [null |-> TRUE]
NoPin == "nopin"
NoLabel == "nolabel"
\* The content of a PIN buffer that holds no PIN: all bytes zero.
ZeroBuf == "zeroed"

NumSlots == 3
MaxLookups == 2
\* util.h is not among the sources; only MAX_PIN_LENGTH's use is
\* (the buffer has MAX_PIN_LENGTH + 1 bytes, pin_length is MAX_PIN_LENGTH).
MAX_PIN_LENGTH == 32

PinValues == {"1234", "9999"}
\* strlen() of a PIN of PinValues.
StrLen(p) == 4

Labels == {"A", "B"}

Token(label, initialized, loginRequired, secureLogin, object) ==
    [label |-> label, initialized |-> initialized,
     loginRequired |-> loginRequired, secureLogin |-> secureLogin,
     object |-> object]

\* The object asked for, as a token holds it: not at all, readable by any
\* session, or readable by a logged-in session only.
ObjectKinds == {"none", "public", "private"}

\* The tokens of the model: uninitialized (no user PIN, nothing private),
\* initialized without login required, with login required, and with login
\* required through a keypad (secure login); a token labelled B, which is
\* the other token an identifier can name.
TokensA ==
    {Token("A", FALSE, FALSE, FALSE, o) : o \in {"none", "public"}}
    \cup {Token("A", TRUE, FALSE, FALSE, "public")}
    \cup {Token("A", TRUE, TRUE, FALSE, o) : o \in {"none", "private"}}
    \cup {Token("A", TRUE, TRUE, TRUE, "private")}

TokensB == {Token("B", TRUE, TRUE, FALSE, "private")}

\* A slot: its token, NoToken for an empty slot. The slot id is its place
\* in slot_list.
SlotChoices == {[token |-> t] : t \in TokensA \cup TokensB \cup {NoToken}}

SlotLists == [1..NumSlots -> SlotChoices]

HasToken(s) == s.token # NoToken

\* ENGINE_CTX's PIN fields as one value.
Ctx(p, len, forced) == [pin |-> p, pin_length |-> len, forced_pin |-> forced]

\* ctx_destroy_pin: cleanse and free the buffer, if there is one.
ctx_destroy_pin(cx) ==
    IF cx.pin # NoPin THEN Ctx(NoPin, 0, FALSE) ELSE cx

\* ctx_ctrl_set_pin(ctx, pin): the PIN is replaced by a copy of the one
\* given, which is marked as explicitly supplied.
ctx_ctrl_set_pin(cx, p) == Ctx(p, StrLen(p), TRUE)

\* What the user interface does when asked for a PIN: UI_new_method fails;
\* the buffer cannot be allocated; the prompt cannot be built or added;
\* UI_process fails or is cancelled; or the user types a PIN.
UiOutcomes ==
    {"ui_new_failed", "alloc_failed", "prompt_failed", "cancelled"}
    \cup PinValues

\* ctx_get_pin: [ok, cx, prompts], prompts counting the runs of UI_process.
ctx_get_pin(cx, ui) ==
    IF ui = "ui_new_failed"
    THEN [ok |-> FALSE, cx |-> cx, prompts |-> 0]
    ELSE IF ui = "alloc_failed"
    THEN [ok |-> FALSE, cx |-> ctx_destroy_pin(cx), prompts |-> 0]
    ELSE LET fresh == Ctx(ZeroBuf, MAX_PIN_LENGTH,
                          ctx_destroy_pin(cx).forced_pin) IN
         IF ui = "prompt_failed"
         THEN [ok |-> FALSE, cx |-> fresh, prompts |-> 0]
         ELSE IF ui = "cancelled"
         THEN [ok |-> FALSE, cx |-> fresh, prompts |-> 1]
         ELSE [ok |-> TRUE, cx |-> [fresh EXCEPT !.pin = ui], prompts |-> 1]

\* slot_logged_in: the answer of PKCS11_is_logged_in, 0 when the query fails.
slot_logged_in(queryOk, isLoggedIn) == queryOk /\ isLoggedIn

\* The environment of one ctx_login call: whether the logged-in query
\* works, whether OPENSSL_malloc gives a buffer, what the user interface
\* does, and whether the token accepts the login.
LoginEnvs ==
    [queryOk : BOOLEAN, mallocOk : BOOLEAN, ui : UiOutcomes,
     loginOk : BOOLEAN]

\* The report of a ctx_login call: ret is its return value, cx the
\* context's PIN fields when it returns, logins the number of PKCS11_login
\* calls, loginPin the PIN passed to it (NoPin for NULL), prompts the
\* number of prompts shown, why the path taken.
Report(ret, cx, logins, loginPin, prompts, why) ==
    [ret |-> ret, cx |-> cx, logins |-> logins, loginPin |-> loginPin,
     prompts |-> prompts, why |-> why]

\* AcquirePin, were the keypad of a secure-login token to win over an
\* explicitly supplied PIN.
AcquirePinKeypadFirst(cx, tok, env) ==
    IF tok.secureLogin
    THEN [ok |-> TRUE, cx |-> ctx_destroy_pin(cx), prompts |-> 0,
          why |-> "secure"]
    ELSE IF cx.pin = NoPin
    THEN LET g == ctx_get_pin(Ctx(ZeroBuf, MAX_PIN_LENGTH, cx.forced_pin),
                              env.ui) IN
         [ok |-> g.ok, cx |-> IF g.ok THEN g.cx ELSE ctx_destroy_pin(g.cx),
          prompts |-> g.prompts, why |-> IF g.ok THEN "prompted" ELSE "nopin"]
    ELSE [ok |-> TRUE, cx |-> cx, prompts |-> 0, why |-> "cached"]

\* AcquirePin, were it to prompt whether or not a PIN is cached.
AcquirePinAlwaysPrompt(cx, tok, env) ==
    IF tok.secureLogin /\ ~cx.forced_pin
    THEN [ok |-> TRUE, cx |-> ctx_destroy_pin(cx), prompts |-> 0,
          why |-> "secure"]
    ELSE LET g == ctx_get_pin(Ctx(ZeroBuf, MAX_PIN_LENGTH, cx.forced_pin),
                              env.ui) IN
         [ok |-> g.ok, cx |-> IF g.ok THEN g.cx ELSE ctx_destroy_pin(g.cx),
          prompts |-> g.prompts, why |-> IF g.ok THEN "prompted" ELSE "nopin"]

\* The PIN ctx_login gets hold of before it logs in: [ok, cx, prompts, why].
AcquirePin(cx, tok, env) ==
    IF tok.secureLogin /\ ~cx.forced_pin
    THEN [ok |-> TRUE, cx |-> ctx_destroy_pin(cx), prompts |-> 0,
          why |-> "secure"]
    ELSE IF cx.pin = NoPin
    THEN IF ~env.mallocOk
         THEN [ok |-> FALSE, cx |-> [cx EXCEPT !.pin_length = MAX_PIN_LENGTH],
               prompts |-> 0, why |-> "nomem"]
         ELSE LET g == ctx_get_pin(Ctx(ZeroBuf, MAX_PIN_LENGTH, cx.forced_pin),
                                   env.ui) IN
              IF g.ok
              THEN [ok |-> TRUE, cx |-> g.cx, prompts |-> g.prompts,
                    why |-> "prompted"]
              ELSE [ok |-> FALSE, cx |-> ctx_destroy_pin(g.cx),
                    prompts |-> g.prompts, why |-> "nopin"]
    ELSE [ok |-> TRUE, cx |-> cx, prompts |-> 0, why |-> "cached"]

\* LoginWith, were a rejected login to be tried a second time.
LoginWithRetry(a, env) ==
    IF ~env.loginOk
    THEN Report(0, ctx_destroy_pin(a.cx), 2, a.cx.pin, a.prompts, "rejected")
    ELSE Report(1, a.cx, 1, a.cx.pin, a.prompts, a.why)

\* PKCS11_login(slot, 0, ctx->pin) and what follows it.
LoginWith(a, env) ==
    IF ~env.loginOk
    THEN Report(0, ctx_destroy_pin(a.cx), 1, a.cx.pin, a.prompts, "rejected")
    ELSE Report(1, a.cx, 1, a.cx.pin, a.prompts, a.why)

\* ctx_login(ctx, slot, tok, ui_method, callback_data).
ctx_login(cx, force, tok, isLoggedIn, env) ==
    IF ~(force \/ tok.loginRequired)
       \/ slot_logged_in(env.queryOk, isLoggedIn)
    THEN Report(1, cx, 0, NoPin, 0, "skipped")
    ELSE LET a == AcquirePin(cx, tok, env) IN
         IF ~a.ok
         THEN Report(0, a.cx, 0, NoPin, a.prompts, a.why)
         ELSE LoginWith(a, env)

\* The token a pkcs11: URI names by its label (match_tok->label), NoLabel
\* for a URI that names none, and the PIN its pin-value carries, if any.
Selectors == Labels \cup {NoLabel}
UriPins == PinValues \cup {NoPin}

\* The slot matches the identifier's token.
MatchesToken(sel, s) ==
    HasToken(s) /\ (sel = NoLabel \/ sel = s.token.label)

SlotIds == [i \in 1..NumSlots |-> i]

\* matched_slots[0 .. matched_count-1], in slot order.
matched_slots(sl, sel) ==
    SelectSeq(SlotIds, LAMBDA i : MatchesToken(sel, sl[i]))

\* match_func(ctx, tok, ...): whether the token shows the object to this
\* session. A private object is shown to a logged-in session only.
match_func(tok, isLoggedIn) ==
    \/ tok.object = "public"
    \/ tok.object = "private" /\ isLoggedIn

\* The search loops: the tokens of seq are searched in order, up to the
\* first that shows the object. obj is its slot, 0 for NULL.
RECURSIVE Scan(_, _, _)
Scan(sl, li, seq) ==
    IF seq = <<>>
    THEN [obj |-> 0, searched |-> {}]
    ELSE IF match_func(sl[Head(seq)].token, Head(seq) \in li)
    THEN [obj |-> Head(seq), searched |-> {Head(seq)}]
    ELSE LET r == Scan(sl, li, Tail(seq)) IN
         [obj |-> r.obj, searched |-> r.searched \cup {Head(seq)}]

\* What one pass of ctx_try_load_object did: the object returned, the
\* context's PIN fields and the logged-in slots afterwards, the slots
\* searched, whether the ambiguity warning was logged, the number of
\* matched slots, the slot ctx_login was called for (0 for none) with the
\* PIN fields it found, and its report.
Pass(obj, cx, li, searched, warned, matched, target, entry, rep) ==
    [obj |-> obj, cx |-> cx, logged_in |-> li, searched |-> searched,
     warned |-> warned, matched |-> matched, target |-> target,
     entry |-> entry, rep |-> rep]

NotCalled(cx) == Report(1, cx, 0, NoPin, 0, "notcalled")

\* The one slot the login pass settles on: log in if login is required or
\* forced, then search its token.
LoginAndSearch(cx, force, sl, li, matched, i, env) ==
    LET tok == sl[i].token
        called == tok.loginRequired \/ force
        r == IF called THEN ctx_login(cx, force, tok, i \in li, env)
             ELSE NotCalled(cx)
        li2 == IF r.logins > 0 /\ r.ret = 1 THEN li \cup {i} ELSE li
        target == IF called THEN i ELSE 0
    IN  IF r.ret = 0
        THEN Pass(0, r.cx, li2, {}, FALSE, matched, target, cx, r)
        ELSE Pass(IF match_func(tok, i \in li2) THEN i ELSE 0, r.cx, li2,
                  {i}, FALSE, matched, target, cx, r)

\* LoginSlot, were the first initialized token to be taken whatever their
\* number.
LoginSlotFirst(init) == IF Len(init) >= 1 THEN init[1] ELSE 0

\* The slot of init_slots the login pass logs in to: the only one, 0 when
\* there is none or more than one.
LoginSlot(init) == IF Len(init) = 1 THEN init[1] ELSE 0

\* ctx_try_load_object for a pkcs11: URI, from the PIN of the URI on.
ctx_try_load_object(cx, force, sl, li, sel, uriPin, login, env) ==
    LET cx1 == IF uriPin # NoPin THEN ctx_ctrl_set_pin(cx, uriPin) ELSE cx
        ms == matched_slots(sl, sel)
        init == SelectSeq(ms, LAMBDA i : sl[i].token.initialized)
        uninit == SelectSeq(ms, LAMBDA i : ~sl[i].token.initialized)
    IN  IF ms = <<>>
        THEN Pass(0, cx1, li, {}, FALSE, 0, 0, cx1, NotCalled(cx1))
        ELSE IF ~login
        THEN LET sc == Scan(sl, li, ms) IN
             Pass(sc.obj, cx1, li, sc.searched, FALSE, Len(ms), 0, cx1,
                  NotCalled(cx1))
        ELSE IF Len(ms) = 1
        THEN LoginAndSearch(cx1, force, sl, li, 1, ms[1], env)
        ELSE IF LoginSlot(init) # 0
        THEN LoginAndSearch(cx1, force, sl, li, Len(ms), LoginSlot(init), env)
        ELSE LET sc == Scan(sl, li, uninit) IN
             Pass(sc.obj, cx1, li, sc.searched, Len(init) > 1, Len(ms), 0,
                  cx1, NotCalled(cx1))

\* The record of the lookup in progress: where ctx_load_object stands, the
\* number of lookups finished, the identifier, and what its passes did.
IdleLookup(n) ==
    [phase |-> "idle", n |-> n, sel |-> NoLabel, uriPin |-> NoPin,
     passes |-> 0, obj |-> 0, logins |-> 0, prompts |-> 0,
     searched |-> {}, warned |-> FALSE, matched |-> 0, target |-> 0,
     entry |-> Ctx(NoPin, 0, FALSE), queryOk |-> TRUE, wasLoggedIn |-> FALSE,
     ret |-> 1, why |-> "notcalled", loginPin |-> NoPin, scratch |-> NoPin]

\* An environment for the pass that calls no ctx_login.
QuietEnv ==
    [queryOk |-> TRUE, mallocOk |-> TRUE, ui |-> "cancelled",
     loginOk |-> TRUE]

\* ctx_load_object after a pass, were it to go on to the pass with login
\* whatever the pass without login returned.
AfterPassAlwaysLogin(obj, login) == IF ~login THEN "pass0" ELSE "done"

\* ctx_load_object after a pass: the pass with login follows the pass
\* without login that returned NULL; otherwise the lookup is over.
AfterPass(obj, login) == IF obj = 0 /\ ~login THEN "pass0" ELSE "done"

\* What tmp_pin holds when ctx_try_load_object returns through cleanup:
\* the PIN parsed from the URI, which nothing has overwritten.
ScratchAtReturn(uriPin) == uriPin

\* The state after a pass that ran to its end.
PassDone(r, sel, uriPin, login, env) ==
    /\ pin' = r.cx.pin
    /\ pin_length' = r.cx.pin_length
    /\ forced_pin' = r.cx.forced_pin
    /\ logged_in' = r.logged_in
    /\ lk' = [lk EXCEPT
                !.phase = AfterPass(r.obj, login),
                !.sel = sel, !.uriPin = uriPin,
                !.passes = @ + 1,
                !.obj = r.obj,
                !.logins = @ + r.rep.logins,
                !.prompts = @ + r.rep.prompts,
                !.searched = r.searched,
                !.warned = r.warned,
                !.matched = r.matched,
                !.target = r.target,
                !.entry = r.entry,
                !.queryOk = IF r.target # 0 THEN env.queryOk ELSE TRUE,
                !.wasLoggedIn = r.target # 0 /\ r.target \in logged_in,
                !.ret = r.rep.ret,
                !.why = r.rep.why,
                !.loginPin = r.rep.loginPin,
                !.scratch = ScratchAtReturn(uriPin)]

\* The slot listing reads slot->token->label of every slot, whether or not
\* the slot has a token: with an empty slot in the list the pass goes on
\* or the process ends there, the PIN of the URI already set.
PassCrashed(sel, uriPin) ==
    LET cx == Ctx(pin, pin_length, forced_pin)
        cx1 == IF uriPin # NoPin THEN ctx_ctrl_set_pin(cx, uriPin) ELSE cx
    IN  /\ \E i \in 1..NumSlots : ~HasToken(slot_list[i])
        /\ pin' = cx1.pin
        /\ pin_length' = cx1.pin_length
        /\ forced_pin' = cx1.forced_pin
        /\ lk' = [lk EXCEPT !.phase = "crashed", !.sel = sel,
                            !.uriPin = uriPin, !.passes = @ + 1]
        /\ UNCHANGED logged_in

RunPass(sel, uriPin, login, env) ==
    \/ PassDone(ctx_try_load_object(Ctx(pin, pin_length, forced_pin),
                                    force_login, slot_list, logged_in,
                                    sel, uriPin, login, env),
                sel, uriPin, login, env)
    \/ PassCrashed(sel, uriPin)

\* ctx_load_object, first pass: without login, unless login is forced.
NoLoginPass ==
    /\ lk.phase = "idle"
    /\ lk.n < MaxLookups
    /\ ~force_login
    /\ \E sel \in Selectors, uriPin \in UriPins :
          RunPass(sel, uriPin, FALSE, QuietEnv)
    /\ UNCHANGED <<cryptoVars, callVars, slot_list, force_login>>

\* ctx_load_object, the pass with login: taken when the first pass found
\* nothing, and at once when login is forced.
LoginPass ==
    /\ \/ /\ lk.phase = "pass0"
          /\ \E env \in LoginEnvs : RunPass(lk.sel, lk.uriPin, TRUE, env)
       \/ /\ lk.phase = "idle"
          /\ lk.n < MaxLookups
          /\ force_login
          /\ \E sel \in Selectors, uriPin \in UriPins, env \in LoginEnvs :
                RunPass(sel, uriPin, TRUE, env)
    /\ UNCHANGED <<cryptoVars, callVars, slot_list, force_login>>

\* ctx_load_object returns the object, or NULL.
LookupReturn ==
    /\ lk.phase = "done"
    /\ lk' = IdleLookup(lk.n + 1)
    /\ UNCHANGED <<cryptoVars, callVars, slot_list, logged_in, force_login, pin,
                   pin_length, forced_pin>>

-----------------------------------------------------------------------------
(* Part III a: the memory a PIN passes through (util_uri.c)                *)
(*                                                                         *)
(* The PIN buffers byte by byte: ctx->pin on the heap, the scratch buffer  *)
(* tmp_pin of ctx_try_load_object and the file-read buffer txt of          *)
(* read_from_file. A byte is 0, a PIN character (positive), or Garbage for *)
(* a byte nothing has written yet.                                         *)

Garbage == -1
\* A pointer that is NULL, where buffers are byte sequences.
NullBuf == <<>>
MaxPinSteps == 3

\* The PINs a URI, a file or the user can give, as bytes.
PinBytes == {<<1, 2, 3, 4>>, <<9, 9, 9, 9, 9>>}

Zeros(n) == [i \in 1..n |-> 0]
Fresh(n) == [i \in 1..n |-> Garbage]

\* buf with src written at its start.
Overwrite(buf, src) ==
    [i \in 1..Len(buf) |-> IF i <= Len(src) THEN src[i] ELSE buf[i]]

HoldsPin(buf) == \E i \in 1..Len(buf) : buf[i] > 0
AllZero(buf) == \A i \in 1..Len(buf) : buf[i] = 0

\* OPENSSL_cleanse(buf, n), were it to leave the bytes as they are.
NoCleanse(buf, n) == buf

\* OPENSSL_cleanse(buf, n): the first n bytes are zeroed.
OPENSSL_cleanse(buf, n) ==
    [i \in 1..Len(buf) |-> IF i <= n THEN 0 ELSE buf[i]]

\* The PIN memory of the context: ctx->pin (NullBuf for NULL, or the bytes of the
\* buffer), ctx->pin_length, ctx->forced_pin, the bytes of every buffer of
\* ctx->pin at the moment it was freed, and the number of buffers that
\* held a PIN when their release began.
PinMem(p, len, forced, freed, wiped) ==
    [pin |-> p, pin_length |-> len, forced_pin |-> forced,
     freed |-> freed, wiped |-> wiped]

\* ctx_destroy_pin on the bytes.
DestroyPin(m) ==
    IF m.pin # NullBuf
    THEN PinMem(NullBuf, 0, FALSE,
                m.freed \cup {OPENSSL_cleanse(m.pin, m.pin_length)},
                IF HoldsPin(m.pin) /\ m.wiped < MaxPinSteps
                THEN m.wiped + 1 ELSE m.wiped)
    ELSE m

\* ctx_ctrl_set_pin on the bytes: the old PIN is destroyed and p is
\* copied into a buffer of its own (with its terminating zero).
SetPin(m, p) ==
    LET d == DestroyPin(m) IN
    [d EXCEPT !.pin = p \o <<0>>, !.pin_length = Len(p), !.forced_pin = TRUE]

\* What the user interface leaves in the buffer: nothing when it fails
\* before UI_process, the PIN when the user types one; a cancelled or
\* failed UI_process may have written what was typed so far.
UiWrites(ui, typed) ==
    IF ui \in {"ui_new_failed", "alloc_failed", "prompt_failed"}
    THEN <<>>
    ELSE typed

\* ctx_get_pin on the bytes: [ok, m].
GetPin(m, ui, typed) ==
    IF ui = "ui_new_failed"
    THEN [ok |-> FALSE, m |-> m]
    ELSE LET d == DestroyPin(m) IN
         IF ui = "alloc_failed"
         THEN [ok |-> FALSE, m |-> d]
         ELSE [ok |-> ui \in PinValues,
               m |-> [d EXCEPT
                        !.pin = Overwrite(Zeros(MAX_PIN_LENGTH + 1),
                                          UiWrites(ui, typed)),
                        !.pin_length = MAX_PIN_LENGTH]]

\* ctx_login on the bytes, from the PIN acquisition on.
LoginMem(m, secureLogin, env, typed) ==
    LET a == IF secureLogin /\ ~m.forced_pin
             THEN [ok |-> TRUE, m |-> DestroyPin(m)]
             ELSE IF m.pin = NullBuf
             THEN IF ~env.mallocOk
                  THEN [ok |-> FALSE,
                        m |-> [m EXCEPT !.pin_length = MAX_PIN_LENGTH]]
                  ELSE LET g == GetPin(
                                  [m EXCEPT
                                     !.pin = Zeros(MAX_PIN_LENGTH + 1),
                                     !.pin_length = MAX_PIN_LENGTH],
                                  env.ui, typed) IN
                       IF g.ok THEN g ELSE [ok |-> FALSE, m |-> DestroyPin(g.m)]
             ELSE [ok |-> TRUE, m |-> m]
    IN  IF ~a.ok THEN a.m
        ELSE IF ~env.loginOk THEN DestroyPin(a.m)
        ELSE a.m

\* Where the PIN of a URI comes from: no PIN attribute, pin-value, a
\* pin-source file that can be read, one that cannot be opened.
PinAttrs == {"none", "pin-value", "pin-source", "pin-source-unreadable"}

\* read_from_file(ctx, path, field, &field_len) with a file holding the
\* line p: [ok, field, field_len, txt], txt being the bytes of the read
\* buffer when it is freed.
read_from_file(readable, p, field) ==
    IF ~readable
    THEN [ok |-> FALSE, field |-> field, field_len |-> MAX_PIN_LENGTH,
          txt |-> <<>>]
    ELSE IF p = <<>>
    THEN [ok |-> TRUE, field |-> field, field_len |-> 0,
          txt |-> Fresh(MAX_PIN_LENGTH + 1)]
    ELSE LET txt == Overwrite(Fresh(MAX_PIN_LENGTH + 1), p \o <<0>>) IN
         [ok |-> TRUE,
          field |->
              Overwrite(field, [i \in 1..MAX_PIN_LENGTH |-> txt[i]]),
          field_len |-> Len(p), txt |-> txt]

\* tmp_pin and tmp_pin_len after parse_pkcs11_uri: [ok, field, field_len,
\* txt].
ParsePin(attr, p) ==
    LET tmp_pin == Fresh(MAX_PIN_LENGTH + 1) IN
    IF attr = "none"
    THEN [ok |-> TRUE, field |-> tmp_pin, field_len |-> 0, txt |-> <<>>]
    ELSE IF attr = "pin-value"
    THEN [ok |-> TRUE, field |-> Overwrite(tmp_pin, p), field_len |-> Len(p),
          txt |-> <<>>]
    ELSE read_from_file(attr = "pin-source", p, tmp_pin)

\* The PIN handling of one ctx_try_load_object call: tmp_pin is filled
\* from the URI, terminated and handed to ctx_ctrl_set_pin; the function
\* returns through cleanup. scratch is tmp_pin as the function leaves it.
UriPin(m, attr, p) ==
    LET r == ParsePin(attr, p)
        set == r.ok /\ r.field_len > 0 /\ r.field[1] # 0
        term == [r.field EXCEPT ![r.field_len + 1] = 0]
    IN  [m |-> IF set THEN SetPin(m, SubSeq(term, 1, r.field_len)) ELSE m,
         scratch |-> IF set THEN term ELSE r.field,
         txt |-> r.txt]

IdlePinMem ==
    [phase |-> "ready", n |-> 0, m |-> PinMem(NullBuf, 0, FALSE, {}, 0),
     last |-> "none", scratch |-> <<>>, txt |-> <<>>]

PmStep(m, last, scratch, txt) ==
    pinmem' = [pinmem EXCEPT !.n = @ + 1, !.m = m, !.last = last,
                             !.scratch = scratch, !.txt = txt]

PmReady == pinmem.phase = "ready" /\ pinmem.n < MaxPinSteps

\* A lookup pass takes the PIN of its URI.
PmUriPin ==
    /\ PmReady
    /\ \E attr \in PinAttrs, p \in PinBytes :
          LET r == UriPin(pinmem.m, attr, p) IN
          PmStep(r.m, attr, r.scratch, r.txt)
    /\ UNCHANGED <<cryptoVars, lookupVars, objsel, slotsel, laterVars>>

\* ctx_login goes past its entry test.
PmLogin ==
    /\ PmReady
    /\ \E secureLogin \in BOOLEAN, env \in LoginEnvs, typed \in PinBytes :
          PmStep(LoginMem(pinmem.m, secureLogin, env, typed), "login",
                 <<>>, <<>>)
    /\ UNCHANGED <<cryptoVars, lookupVars, objsel, slotsel, laterVars>>

\* The engine is finished with the PIN: ctx_destroy_pin.
PmDestroy ==
    /\ PmReady
    /\ PmStep(DestroyPin(pinmem.m), "destroy", <<>>, <<>>)
    /\ UNCHANGED <<cryptoVars, lookupVars, objsel, slotsel, laterVars>>

-----------------------------------------------------------------------------
(* Part III b: the selection of a key or certificate (util_uri.c)          *)
(*                                                                         *)
(* match_key and match_cert, each as one call on an enumeration the token  *)
(* returned. An object id is a byte sequence, empty for none; a label is   *)
(* a string, NoLabel for NULL. The result is the index of the selected     *)
(* entry in the enumeration, 0 for NULL.                                   *)

MaxKeys == 3

ObjIds == {<<>>, <<1>>, <<2>>}
ObjLabels == {NoLabel, "L1", "L2"}

\* PKCS11_KEY, as far as match_key reads it.
KeyEntries == [id : ObjIds, label : ObjLabels]

\* The enumerations of at most n entries of S.
SeqsUpTo(S, n) == UNION {[1..k -> S] : k \in 0..n}

\* The test match_key and match_cert apply to the entry k, by what the
\* identifier gives: label and id, label alone, id alone.
EntryMatches(k, obj_id, obj_label) ==
    IF obj_label # NoLabel /\ Len(obj_id) # 0
    THEN k.label # NoLabel /\ k.label = obj_label
         /\ Len(k.id) = Len(obj_id) /\ k.id = obj_id
    ELSE IF obj_label # NoLabel /\ Len(obj_id) = 0
    THEN k.label # NoLabel /\ k.label = obj_label
    ELSE IF Len(obj_id) # 0 /\ obj_label = NoLabel
    THEN Len(k.id) = Len(obj_id) /\ k.id = obj_id
    ELSE FALSE

\* One turn of match_key's loop, were it to keep the first match.
KeepFirstKey(selected, m, k, obj_id, obj_label) ==
    IF selected = 0 /\ EntryMatches(k, obj_id, obj_label) THEN m ELSE selected

\* One turn of match_key's loop: selected_key after entry m.
SelectKey(selected, m, k, obj_id, obj_label) ==
    IF EntryMatches(k, obj_id, obj_label) THEN m ELSE selected

\* match_key's loop from entry m on.
RECURSIVE KeyLoop(_, _, _, _, _)
KeyLoop(keys, m, selected, obj_id, obj_label) ==
    IF m > Len(keys)
    THEN selected
    ELSE KeyLoop(keys, m + 1,
                 SelectKey(selected, m, keys[m], obj_id, obj_label),
                 obj_id, obj_label)

\* match_key, were it to fall back on the first key when none matches.
match_keyOrFirst(keys, obj_id, obj_label) ==
    IF Len(keys) = 0
    THEN 0
    ELSE IF KeyLoop(keys, 1, 0, obj_id, obj_label) # 0
    THEN KeyLoop(keys, 1, 0, obj_id, obj_label)
    ELSE 1

\* match_key(ctx, key_type, keys, key_count, obj_id, obj_id_len, obj_label)
match_key(keys, obj_id, obj_label) ==
    IF Len(keys) = 0
    THEN 0
    ELSE IF Len(obj_id) # 0 \/ obj_label # NoLabel
    THEN KeyLoop(keys, 1, 0, obj_id, obj_label)
    ELSE 1

\* A call of match_key about to be made.
KeyCalls ==
    [phase : {"call"}, keys : SeqsUpTo(KeyEntries, MaxKeys),
     obj_id : ObjIds, obj_label : ObjLabels, out : {0}]

MatchKeyCall ==
    /\ objsel.phase = "call"
    /\ objsel' = [objsel EXCEPT
                    !.phase = "returned",
                    !.out = match_key(objsel.keys, objsel.obj_id,
                                      objsel.obj_label)]
    /\ UNCHANGED <<cryptoVars, lookupVars, slotsel, pinmem, laterVars>>

MaxCerts == 3

\* The not-after field of a certificate whose bytes are no valid time.
BadTime == 0

\* cert->x509 of an entry without a parsed certificate: NULL.
NoX509 == [null |-> TRUE]

\* The certificates a token may hold: der stands for the encoded
\* certificate, which X509_cmp orders, notAfter for its expiry. The first
\* and the last expire together; the second has a malformed expiry.
X509s ==
    {[der |-> 1, notAfter |-> 2], [der |-> 2, notAfter |-> BadTime],
     [der |-> 3, notAfter |-> 1], [der |-> 4, notAfter |-> 2]}

CertIds == {<<>>, <<0>>, <<1>>}
CertLabels == {NoLabel, "L1"}

\* PKCS11_CERT, as far as match_cert and cert_cmp read it.
CertEntries == [id : CertIds, label : CertLabels, x509 : X509s \cup {NoX509}]

\* ASN1_TIME_diff(&pday, &psec, from, to): 0 when a time is malformed;
\* otherwise 1, with pday and psec of the sign of to - from.
ASN1_TIME_diff(from, to) ==
    IF from = BadTime \/ to = BadTime
    THEN [ok |-> FALSE, sign |-> 0]
    ELSE [ok |-> TRUE,
          sign |-> IF to < from THEN -1 ELSE IF to > from THEN 1 ELSE 0]

\* X509_cmp, were every two certificates to compare equal.
X509_cmpEqual(x, y) == 0

\* X509_cmp(a, b): the order of the encoded certificates.
X509_cmp(x, y) ==
    IF x.der < y.der THEN -1 ELSE IF x.der > y.der THEN 1 ELSE 0

\* cert_cmp(a, b) on entries of certs, 0 for NULL: the better of the two.
cert_cmp(certs, a, b) ==
    IF a = 0 \/ certs[a].x509 = NoX509 THEN b
    ELSE IF b = 0 \/ certs[b].x509 = NoX509 THEN a
    ELSE LET d == ASN1_TIME_diff(certs[a].x509.notAfter,
                                 certs[b].x509.notAfter) IN
         IF d.ok /\ d.sign < 0 THEN a
         ELSE IF d.ok /\ d.sign > 0 THEN b
         ELSE IF X509_cmp(certs[a].x509, certs[b].x509) < 1 THEN b
         ELSE a

\* match_cert's loop with an id or label given, from entry m on.
RECURSIVE CertLoop(_, _, _, _, _)
CertLoop(certs, m, selected, obj_id, obj_label) ==
    IF m > Len(certs)
    THEN selected
    ELSE CertLoop(certs, m + 1,
                  IF EntryMatches(certs[m], obj_id, obj_label)
                  THEN cert_cmp(certs, selected, m) ELSE selected,
                  obj_id, obj_label)

\* k->id && *k->id
IdPresent(k) == k.id # <<>> /\ k.id[1] # 0

\* match_cert's loop with neither id nor label, from entry m on.
RECURSIVE FirstWithId(_, _, _)
FirstWithId(certs, m, selected) ==
    IF m > Len(certs)
    THEN selected
    ELSE FirstWithId(certs, m + 1,
                     IF selected = 0 /\ IdPresent(certs[m])
                     THEN m ELSE selected)

\* match_cert(ctx, tok, obj_id, obj_id_len, obj_label) on the enumeration
\* PKCS11_enumerate_certs_ext returned.
match_cert(certs, obj_id, obj_label) ==
    IF Len(certs) = 0
    THEN 0
    ELSE IF Len(obj_id) # 0 \/ obj_label # NoLabel
    THEN CertLoop(certs, 1, 0, obj_id, obj_label)
    ELSE LET f == FirstWithId(certs, 1, 0) IN
         IF f = 0 THEN 1 ELSE f

\* A call of match_cert about to be made.
CertCalls ==
    [phase : {"call"}, certs : SeqsUpTo(CertEntries, MaxCerts),
     obj_id : {<<>>, <<1>>}, obj_label : CertLabels, out : {0}]

MatchCertCall ==
    /\ objsel.phase = "call"
    /\ objsel' = [objsel EXCEPT
                    !.phase = "returned",
                    !.out = match_cert(objsel.certs, objsel.obj_id,
                                       objsel.obj_label)]
    /\ UNCHANGED <<cryptoVars, lookupVars, slotsel, pinmem, laterVars>>

-----------------------------------------------------------------------------
(* Part III c: the matching of slots (util_uri.c)                          *)
(*                                                                         *)
(* The part of ctx_try_load_object between the parsing of the identifier   *)
(* and the search: the loop over ctx->slot_list that fills matched_slots,  *)
(* and what is done when it matched nothing.                               *)

SlotCount == 2

\* A field of match_tok that the URI does not give: NULL.
Null == "null"
AttrValues == {"x", "y"}

\* PKCS11_TOKEN, as far as the matching reads it.
TokenInfos ==
    [label : AttrValues, manufacturer : AttrValues, serialnr : AttrValues,
     model : AttrValues]

\* match_tok of a pkcs11: URI; NoFilter for the other identifiers.
TokenFilters ==
    [label : AttrValues \cup {Null}, manufacturer : AttrValues \cup {Null},
     serialnr : AttrValues \cup {Null}, model : AttrValues \cup {Null}]

NoFilter == [null |-> TRUE]

\* slot_nr of an identifier that gives no slot.
NoSlotNr == -1

\* PKCS11_get_slotid_from_slot of the slot at place i of ctx->slot_list.
SlotIdOf(i) == i - 1

\* The slot numbers an identifier can give: the ids of the slots and one
\* that no slot has.
SlotNrs == {SlotIdOf(i) : i \in 1..SlotCount + 1}

\* What an identifier leaves for the matching: a token filter (pkcs11:
\* URI), a slot number (legacy form with a slot), or neither.
MatchInputs ==
    {[match_tok |-> f, slot_nr |-> NoSlotNr] : f \in TokenFilters}
    \cup {[match_tok |-> NoFilter, slot_nr |-> n] : n \in SlotNrs}
    \cup {[match_tok |-> NoFilter, slot_nr |-> NoSlotNr]}

\* The four comparisons of match_tok with slot->token.
FilterMatches(f, tok) ==
    /\ (f.label = Null \/ f.label = tok.label)
    /\ (f.manufacturer = Null \/ f.manufacturer = tok.manufacturer)
    /\ (f.serialnr = Null \/ f.serialnr = tok.serialnr)
    /\ (f.model = Null \/ f.model = tok.model)

\* found_slot is set in the turn of the loop for the slot at place i.
FoundSlot(inp, sl, i) ==
    \/ inp.slot_nr # NoSlotNr /\ inp.slot_nr = SlotIdOf(i)
    \/ /\ inp.match_tok # NoFilter
       /\ HasToken(sl[i])
       /\ FilterMatches(inp.match_tok, sl[i].token)

\* The slot at place i is added to matched_slots, were a slot found by
\* its number to be added whether or not it holds a token.
SlotMatchedAnyway(inp, sl, i) == FoundSlot(inp, sl, i)

\* The slot at place i is added to matched_slots.
SlotMatched(inp, sl, i) == FoundSlot(inp, sl, i) /\ HasToken(sl[i])

\* matched_slots after the loop.
MatchLoop(inp, sl) ==
    SelectSeq([i \in 1..SlotCount |-> i], LAMBDA i : SlotMatched(inp, sl, i))

\* What follows the loop: [go, err, slots], go telling whether the pass
\* goes on to the search or leaves through cleanup, slots being
\* matched_slots. deflt is the slot PKCS11_find_token returns, 0 for NULL.
Outcome(go, err, slots) == [go |-> go, err |-> err, slots |-> slots]

\* AfterLoop, were the default token to be tried whatever the identifier.
AfterLoopAlwaysDefault(inp, sl, matched, deflt) ==
    IF matched # <<>>
    THEN Outcome("search", "none", matched)
    ELSE IF deflt # 0 /\ HasToken(sl[deflt])
    THEN Outcome("search", "none", <<deflt>>)
    ELSE Outcome("cleanup", "No tokens found", <<>>)

AfterLoop(inp, sl, matched, deflt) ==
    IF matched # <<>>
    THEN Outcome("search", "none", matched)
    ELSE IF inp.match_tok # NoFilter
    THEN Outcome("cleanup", "No matching token was found", <<>>)
    ELSE IF inp.slot_nr # NoSlotNr
    THEN Outcome("cleanup", "not found on slot", <<>>)
    ELSE IF deflt # 0 /\ HasToken(sl[deflt])
    THEN Outcome("search", "none", <<deflt>>)
    ELSE Outcome("cleanup", "No tokens found", <<>>)

\* The slots whose slot->token->label the listing of a turn reads: every
\* slot of the list, the test for slot->token of the flags not being
\* repeated there.
TokenReads(sl) == {i \in 1..SlotCount : TRUE}

\* A pass about to match the slots.
SlotCalls ==
    [phase : {"call"}, inp : MatchInputs,
     slots : [1..SlotCount -> {[token |-> t] : t \in TokenInfos \cup {NoToken}}],
     deflt : 0..SlotCount,
     matched : {<<>>}, after : {Outcome("none", "none", <<>>)}]

\* The pass matches the slots and goes on to the search or to cleanup.
MatchSlots ==
    /\ slotsel.phase = "call"
    /\ LET m == MatchLoop(slotsel.inp, slotsel.slots) IN
       slotsel' = [slotsel EXCEPT
                     !.phase = "matched",
                     !.matched = m,
                     !.after = AfterLoop(slotsel.inp, slotsel.slots, m,
                                         slotsel.deflt)]
    /\ UNCHANGED <<cryptoVars, lookupVars, objsel, pinmem, laterVars>>

\* The listing of the slots reads slot->token->label of a slot without a
\* token: the process may end in the loop.
MatchCrash ==
    /\ slotsel.phase = "call"
    /\ \E i \in 1..SlotCount : ~HasToken(slotsel.slots[i])
    /\ slotsel' = [slotsel EXCEPT !.phase = "crashed"]
    /\ UNCHANGED <<cryptoVars, lookupVars, objsel, pinmem, laterVars>>

-----------------------------------------------------------------------------
(* Part III d: the search of the matched slots (util_uri.c)                *)
(*                                                                         *)
(* One pass of ctx_try_load_object for keys, from the matching of the      *)
(* slots to its return: the slots are matched as in Part III c, and the    *)
(* tokens of the matched slots are searched with match_key_int, each       *)
(* token answering the enumeration with its keys or with an error.         *)

MaxSearchKeys == 2

\* The keys a token may hold.
SearchKeys ==
    {[id |-> <<1>>, label |-> "L1"], [id |-> <<2>>, label |-> "L1"],
     [id |-> <<1>>, label |-> "L2"]}

\* The answer of PKCS11_enumerate_keys_ext / _public_keys_ext: the keys, or
\* an error.
EnumError == [ok |-> FALSE, keys |-> <<>>]

Enumerations ==
    {[ok |-> TRUE, keys |-> ks] : ks \in SeqsUpTo(SearchKeys, MaxSearchKeys)}
    \cup {EnumError}

\* The tokens searched: named by their label alone, uninitialized, or
\* initialized with or without login required.
SearchTokens ==
    {[label |-> l, manufacturer |-> "x", serialnr |-> "x", model |-> "x",
      initialized |-> k # "uninit", loginRequired |-> k = "login", enum |-> e] :
        l \in AttrValues, k \in {"uninit", "nologin", "login"},
        e \in Enumerations}

\* The identifiers: a pkcs11: URI naming the token by its label or not at
\* all, a legacy identifier with a slot, or one with neither.
SearchInputs ==
    {[match_tok |-> [label |-> l, manufacturer |-> Null, serialnr |-> Null,
                     model |-> Null], slot_nr |-> NoSlotNr] :
        l \in AttrValues \cup {Null}}
    \cup {[match_tok |-> NoFilter, slot_nr |-> n] : n \in SlotNrs}
    \cup {[match_tok |-> NoFilter, slot_nr |-> NoSlotNr]}

\* The object a pass returns: the key at place key of the enumeration of
\* the token in the slot at place slot; NULL.
Object(slot, key) == [slot |-> slot, key |-> key]
NoObject == Object(0, 0)

\* match_key_int(ctx, tok, isPrivate, obj_id, obj_id_len, obj_label): the
\* place of the key in the enumeration, 0 for NULL.
match_key_int(tok, obj_id, obj_label) ==
    IF ~tok.enum.ok
    THEN 0
    ELSE match_key(tok.enum.keys, obj_id, obj_label)

\* SearchFrom, were a failed enumeration to end the search.
SearchUntilError(sl, seq, m, obj_id, obj_label) ==
    LET Stop(i) == ~sl[seq[i]].token.enum.ok
                   \/ match_key_int(sl[seq[i]].token, obj_id, obj_label) # 0
        first == IF \E i \in m..Len(seq) : Stop(i)
                 THEN CHOOSE i \in m..Len(seq) :
                         Stop(i) /\ \A j \in m..(i - 1) : ~Stop(j)
                 ELSE 0
    IN  IF first = 0 \/ ~sl[seq[first]].token.enum.ok
        THEN NoObject
        ELSE Object(seq[first],
                    match_key_int(sl[seq[first]].token, obj_id, obj_label))

\* The loops that search the slots of seq in order from place m on, up to
\* the first whose token gives an object.
RECURSIVE SearchFrom(_, _, _, _, _)
SearchFrom(sl, seq, m, obj_id, obj_label) ==
    IF m > Len(seq)
    THEN NoObject
    ELSE LET k == match_key_int(sl[seq[m]].token, obj_id, obj_label) IN
         IF k # 0
         THEN Object(seq[m], k)
         ELSE SearchFrom(sl, seq, m + 1, obj_id, obj_label)

\* What the environment does to the pass with login: nothing, it refuses
\* the login, or it has no memory for init_slots and uninit_slots.
SearchEnvs == {"ok", "login_fails", "no_memory"}

\* The one slot i the pass with login settles on: ctx_login if login is
\* required or forced, then the search of its token.
LoginThenSearch(sl, i, force, env, obj_id, obj_label) ==
    IF (sl[i].token.loginRequired \/ force) /\ env = "login_fails"
    THEN NoObject
    ELSE Object(IF match_key_int(sl[i].token, obj_id, obj_label) # 0
                THEN i ELSE 0,
                match_key_int(sl[i].token, obj_id, obj_label))

\* ctx_try_load_object from the matched slots ms on.
SearchMatched(sl, ms, login, force, env, obj_id, obj_label) ==
    LET init == SelectSeq(ms, LAMBDA i : sl[i].token.initialized)
        uninit == SelectSeq(ms, LAMBDA i : ~sl[i].token.initialized)
    IN  IF ~login
        THEN SearchFrom(sl, ms, 1, obj_id, obj_label)
        ELSE IF Len(ms) = 1
        THEN LoginThenSearch(sl, ms[1], force, env, obj_id, obj_label)
        ELSE IF env = "no_memory"
        THEN NoObject
        ELSE IF Len(init) = 1
        THEN LoginThenSearch(sl, init[1], force, env, obj_id, obj_label)
        ELSE SearchFrom(sl, uninit, 1, obj_id, obj_label)

\* A pass about to match the slots. PKCS11_find_token is asked only for an
\* identifier with neither token nor slot.
SearchCalls ==
    {c \in [phase : {"call"}, inp : SearchInputs,
            slots : [1..SlotCount ->
                        {[token |-> t] : t \in SearchTokens \cup {NoToken}}],
            deflt : 0..SlotCount, obj_id : {<<>>, <<1>>},
            obj_label : {NoLabel, "L1"}, login : BOOLEAN,
            force : BOOLEAN, env : SearchEnvs,
            matched : {<<>>}, obj : {NoObject}] :
        /\ (c.inp.match_tok # NoFilter \/ c.inp.slot_nr # NoSlotNr)
              => c.deflt = 0
        /\ ~c.login => (c.env = "ok" /\ ~c.force)}

\* The pass runs to its return.
SearchCall ==
    /\ search.phase = "call"
    /\ LET a == AfterLoop(search.inp, search.slots,
                          MatchLoop(search.inp, search.slots), search.deflt)
       IN  search' = [search EXCEPT
                        !.phase = "returned",
                        !.matched = a.slots,
                        !.obj = IF a.go = "cleanup" THEN NoObject
                                ELSE SearchMatched(search.slots, a.slots,
                                                   search.login, search.force,
                                                   search.env, search.obj_id,
                                                   search.obj_label)]
    /\ UNCHANGED <<cryptoVars, lookupVars, objsel, slotsel, pinmem, parse,
                   mech, pinuse>>

\* The listing of the slots reads slot->token->label of a slot without a
\* token: the process may end there.
SearchCrash ==
    /\ search.phase = "call"
    /\ \E i \in 1..SlotCount : ~HasToken(search.slots[i])
    /\ search' = [search EXCEPT !.phase = "crashed"]
    /\ UNCHANGED <<cryptoVars, lookupVars, objsel, slotsel, pinmem, parse,
                   mech, pinuse>>

-----------------------------------------------------------------------------
(* Part III e: the legacy identifier parser                                *)
(*                                                                         *)
(* parse_slot_id_string and hex_to_bin, on strings as sequences of         *)
(* characters.  The identifiers are put together from pieces (keywords,    *)
(* numbers, hex digits, separators and a character that fits nowhere), so  *)
(* that every shape the parser knows and its near misses are among them.   *)

MaxPieces == 4

NUL == "NUL"
HexLower == <<"0", "1", "2", "3", "4", "5", "6", "7", "8", "9",
              "a", "b", "c", "d", "e", "f">>
HexUpper == <<"0", "1", "2", "3", "4", "5", "6", "7", "8", "9",
              "A", "B", "C", "D", "E", "F">>
\* #define HEXDIGITS, #define DIGITS
HEXDIGITS == {HexLower[i] : i \in 1..16} \cup {HexUpper[i] : i \in 1..16}
DIGITS == {HexLower[i] : i \in 1..10}

\* The value of a hex digit.
HexVal(c) == CHOOSE v \in 0..15 : HexLower[v + 1] = c \/ HexUpper[v + 1] = c

KwId == <<"i", "d", "_">>
KwLabel == <<"l", "a", "b", "e", "l", "_">>
KwSlot == <<"s", "l", "o", "t", "_">>

Pieces ==
    {KwId, KwLabel, KwSlot,
     <<"3">>, <<"1", "2">>, <<"-", "1">>, <<" ", "3">>, <<"3", "-">>,
     <<"a", "B">>, <<"f">>, <<":">>, <<"-">>, <<"x">>}

RECURSIVE Joined(_)
\* The string made of the pieces ps.
Joined(ps) ==
    IF Len(ps) = 0 THEN <<>>
    ELSE ps[1] \o Joined([i \in 1..(Len(ps) - 1) |-> ps[i + 1]])

\* s + i, and s[i], with C's indices.
Drop(s, i) == SubSeq(s, i + 1, Len(s))
CharAt(s, i) == IF i < Len(s) THEN s[i + 1] ELSE NUL

\* strspn(s, accept)
strspn(s, accept) ==
    IF \A i \in 1..Len(s) : s[i] \in accept THEN Len(s)
    ELSE (CHOOSE i \in 1..Len(s) :
             s[i] \notin accept /\ \A j \in 1..(i - 1) : s[j] \in accept) - 1

\* strncmp(s, kw, strlen(kw)) == 0
StartsWith(s, kw) == Len(s) >= Len(kw) /\ SubSeq(s, 1, Len(kw)) = kw

RECURSIVE DecVal(_)
\* The number a string of decimal digits stands for.
DecVal(ds) ==
    IF ds = <<>> THEN 0
    ELSE 10 * DecVal(SubSeq(ds, 1, Len(ds) - 1)) + HexVal(ds[Len(ds)])

\* sscanf(s, "%d", &n): white space is skipped, a sign is taken, then at
\* least one digit; [count, n].
sscanf_d(s) ==
    LET r == Drop(s, strspn(s, {" "}))
        signed == r # <<>> /\ r[1] \in {"-", "+"}
        d == IF signed THEN Drop(r, 1) ELSE r
        nd == strspn(d, DIGITS)
        v == DecVal(SubSeq(d, 1, nd))
    IN  IF nd = 0
        THEN [count |-> IF r = <<>> THEN -1 ELSE 0, n |-> 0]
        ELSE [count |-> 1, n |-> IF signed /\ r[1] = "-" THEN 0 - v ELSE v]

HexResult(ret, out, outlen) == [ret |-> ret, out |-> out, outlen |-> outlen]

\* The inner loop of hex_to_bin: up to two digits, up to a ':' or the end
\* of the string, make one byte; [ok, byte, rest].
Nybbles(in) ==
    LET take == IF Len(in) >= 2 /\ in[2] # ":" THEN 2 ELSE 1
        digs == SubSeq(in, 1, IF in[1] = ":" THEN 0 ELSE take)
        bad == \E i \in 1..Len(digs) :
                  digs[i] \notin HEXDIGITS
                     /\ \A j \in 1..(i - 1) : digs[j] \in HEXDIGITS
    IN  [ok |-> ~bad,
         byte |-> IF bad \/ digs = <<>> THEN 0
                  ELSE IF Len(digs) = 1 THEN HexVal(digs[1])
                  ELSE 16 * HexVal(digs[1]) + HexVal(digs[2]),
         rest |-> Drop(in, Len(digs))]

RECURSIVE HexLoop(_, _, _)
\* The outer loop of hex_to_bin.
HexLoop(in, left, out) ==
    IF in = <<>> THEN HexResult(1, out, Len(out))
    ELSE LET b == Nybbles(in)
             rest == IF CharAt(b.rest, 0) = ":" THEN Drop(b.rest, 1)
                     ELSE b.rest
         IN  IF ~b.ok THEN HexResult(0, out, 0)
             ELSE IF left = 0 THEN HexResult(0, out, 0)
             ELSE HexLoop(rest, left - 1, out \o <<b.byte>>)

\* hex_to_bin that leaves the bytes stored so far in *outlen when it fails.
hex_to_binKeepsCount(in, outlen) ==
    IF in = <<>> THEN HexResult(1, <<>>, 0)
    ELSE LET r == HexLoop(in, outlen, <<>>) IN
         HexResult(r.ret, r.out, Len(r.out))

\* hex_to_bin(ctx, in, out, outlen)
hex_to_bin(in, outlen) ==
    IF in = <<>> THEN HexResult(1, <<>>, 0)
    ELSE HexLoop(in, outlen, <<>>)

\* *label: NULL, or a copy of a string.
NullLabel == [null |-> TRUE]
LabelOf(s) == [null |-> FALSE, str |-> s]

\* What parse_slot_id_string returns and leaves in *slot, id, *id_len and
\* *label.
Parsed(ret, slot, id, id_len, label) ==
    [ret |-> ret, slot |-> slot, id |-> id, id_len |-> id_len,
     label |-> label, log |-> "none"]

\* The diagnostics of parse_slot_id_string and of hex_to_bin.
TooLong == "ID string too long!"
CouldNotParse == "Could not parse string!"
NotRecognized == "Format not recognized!"
NoSlotNumber == "Could not decode slot number!"
HexError == "hex_to_bin()"

\* ctx_log(msg); return 0; with the output arguments as they are.
Failed(p0, msg) == [p0 EXCEPT !.ret = 0, !.log = msg]

\* HexId without the comparison of the length with *id_len.
HexIdUnchecked(slot_id, i, n, p0) ==
    IF strspn(Drop(slot_id, i), HEXDIGITS) + i # Len(slot_id)
    THEN Failed(p0, CouldNotParse)
    ELSE LET h == hex_to_bin(Drop(slot_id, i), p0.id_len) IN
         [Parsed(h.ret, n, h.out, h.outlen, p0.label)
             EXCEPT !.log = IF h.ret = 1 THEN "none" ELSE HexError]

\* The hex id at slot_id + i is decoded into id, the slot being n.
HexId(slot_id, i, n, p0) ==
    IF strspn(Drop(slot_id, i), HEXDIGITS) + i # Len(slot_id)
    THEN Failed(p0, CouldNotParse)
    ELSE IF (Len(slot_id) - i + 1) \div 2 > p0.id_len
    THEN Failed(p0, TooLong)
    ELSE LET h == hex_to_bin(Drop(slot_id, i), p0.id_len) IN
         [Parsed(h.ret, n, h.out, h.outlen, p0.label)
             EXCEPT !.log = IF h.ret = 1 THEN "none" ELSE HexError]

\* The label at slot_id + i is copied, the slot being n.
LabelAt(slot_id, i, n, p0, mallocOk) ==
    IF mallocOk THEN Parsed(1, n, p0.id, 0, LabelOf(Drop(slot_id, i)))
    ELSE Parsed(0, n, p0.id, 0, NullLabel)

\* parse_slot_id_string(ctx, slot_id, slot, id, id_len, label), p0 holding
\* what the caller has put into the output arguments.
parse_slot_id_string(slot_id, p0, mallocOk) ==
    LET sc == sscanf_d(slot_id)
        i2 == strspn(slot_id, DIGITS)
        sc5 == sscanf_d(Drop(slot_id, 5))
        i5 == strspn(Drop(slot_id, 5), DIGITS)
        i == 5 + i5 + 1
    IN  IF strspn(slot_id, HEXDIGITS) = Len(slot_id)
        THEN HexId(slot_id, 0, -1, p0)
        ELSE IF sc.count = 1
        THEN IF CharAt(slot_id, i2) # ":" THEN Failed(p0, CouldNotParse)
             ELSE IF CharAt(slot_id, i2 + 1) = NUL
             THEN Parsed(1, sc.n, p0.id, 0, p0.label)
             ELSE HexId(slot_id, i2 + 1, sc.n, p0)
        ELSE IF StartsWith(slot_id, KwId)
        THEN HexId(slot_id, 3, -1, p0)
        ELSE IF StartsWith(slot_id, KwLabel)
        THEN LabelAt(slot_id, 6, -1, p0, mallocOk)
        ELSE IF ~StartsWith(slot_id, KwSlot) THEN Failed(p0, NotRecognized)
        ELSE IF sc5.count # 1 THEN Failed(p0, NoSlotNumber)
        ELSE IF CharAt(slot_id, i5 + 5) = NUL
        THEN Parsed(1, sc5.n, p0.id, 0, p0.label)
        ELSE IF CharAt(slot_id, i5 + 5) # "-" THEN Failed(p0, CouldNotParse)
        ELSE IF StartsWith(Drop(slot_id, i), KwId)
        THEN HexId(slot_id, i + 3, sc5.n, p0)
        ELSE IF StartsWith(Drop(slot_id, i), KwLabel)
        THEN LabelAt(slot_id, i + 6, sc5.n, p0, mallocOk)
        ELSE Failed(p0, CouldNotParse)

\* The output arguments as ctx_try_load_object passes them: slot_nr = -1,
\* obj_id a buffer of strlen(object_uri) + 1 bytes, obj_label = NULL.
ParseArgs(slot_id) == Parsed(0, -1, <<>>, Len(slot_id) + 1, NullLabel)

\* A call of the parser that has not run yet: object_uri is the string
\* slot_id, and OPENSSL_strdup will succeed or fail.
NewParse(slot_id, mallocOk) ==
    [phase |-> "call", slot_id |-> slot_id, mallocOk |-> mallocOk,
     out |-> Parsed(0, -1, <<>>, 0, NullLabel)]

\* ctx_try_load_object hands a legacy identifier to the parser.
ParseCall ==
    /\ parse.phase = "call"
    /\ parse' = [parse EXCEPT
                    !.phase = "returned",
                    !.out = parse_slot_id_string(parse.slot_id,
                                                 ParseArgs(parse.slot_id),
                                                 parse.mallocOk)]
    /\ UNCHANGED <<cryptoVars, lookupVars, objsel, slotsel, pinmem, search,
                   mech, pinuse>>

\* hex_to_bin called on its own: in is a string over hex digits, ':' and a
\* character that is neither, *outlen the capacity of out.
MaxHexLen == 4
MaxOutLen == 3
HexInputChars == {"3", "a", "B", "f", ":", "x"}

NewHexCall(in, outlen) ==
    [phase |-> "hexcall", in |-> in, cap |-> outlen,
     out |-> HexResult(0, <<>>, outlen)]

\* A caller hands the string and the capacity to hex_to_bin.
HexCall ==
    /\ parse.phase = "hexcall"
    /\ parse' = [parse EXCEPT !.phase = "hexreturned",
                              !.out = hex_to_bin(parse.in, parse.cap)]
    /\ UNCHANGED <<cryptoVars, lookupVars, objsel, slotsel, pinmem, search,
                   mech, pinuse>>

\* parse_slot_id_string called with an id buffer of any capacity: *id_len
\* is cap on entry.
NewCapParse(slot_id, cap) ==
    [phase |-> "capcall", slot_id |-> slot_id, cap |-> cap,
     out |-> Parsed(0, -1, <<>>, cap, NullLabel)]

\* A caller hands the identifier and the buffer to the parser.
ParseCapCall ==
    /\ parse.phase = "capcall"
    /\ parse' = [parse EXCEPT
                    !.phase = "capreturned",
                    !.out = parse_slot_id_string(
                                parse.slot_id,
                                Parsed(0, -1, <<>>, parse.cap, NullLabel),
                                TRUE)]
    /\ UNCHANGED <<cryptoVars, lookupVars, objsel, slotsel, pinmem, search,
                   mech, pinuse>>

(***************************************************************************)
(* Part III f: the pkcs11: URI parser.  An attribute value is a string of  *)
(* characters; what is decoded from it is a sequence of byte values.       *)
(***************************************************************************)

MaxAttrLen == 4
MaxAttrBytes == 3

\* The byte value of a character.
Ord(c) ==
    CASE c = "%" -> 37
      [] c = "/" -> 47
      [] c = "1" -> 49
      [] c = "2" -> 50
      [] c = "3" -> 51
      [] c = "4" -> 52
      [] c = "9" -> 57
      [] c = ":" -> 58
      [] c = "=" -> 61
      [] c = "A" -> 65
      [] c = "B" -> 66
      [] c = "C" -> 67
      [] c = "E" -> 69
      [] c = "F" -> 70
      [] c = "I" -> 73
      [] c = "K" -> 75
      [] c = "L" -> 76
      [] c = "P" -> 80
      [] c = "S" -> 83
      [] c = "a" -> 97
      [] c = "c" -> 99
      [] c = "e" -> 101
      [] c = "f" -> 102
      [] c = "i" -> 105
      [] c = "k" -> 107
      [] c = "l" -> 108
      [] c = "m" -> 109
      [] c = "n" -> 110
      [] c = "p" -> 112
      [] c = "s" -> 115
      [] c = "x" -> 120
      [] c = "|" -> 124

AttrChars == {"%", "3", "a", "B", ":", "x"}

RECURSIVE AttrLoop(_, _, _)
\* The loop of parse_uri_attr_len: [ret, attr, field], attr being the input
\* that is left and field the bytes stored so far.
AttrLoop(attr, max, field) ==
    IF attr = <<>> \/ Len(field) >= max
    THEN [ret |-> 1, attr |-> attr, field |-> field]
    ELSE IF attr[1] = "%"
    THEN IF Len(attr) < 3
         THEN [ret |-> 0, attr |-> attr, field |-> field]
         ELSE LET h == hex_to_bin(<<attr[2], attr[3]>>, 1) IN
              IF h.ret = 0
              THEN [ret |-> 0, attr |-> Drop(attr, 3),
                    field |-> field \o h.out]
              ELSE AttrLoop(Drop(attr, 3), max, field \o h.out)
    ELSE AttrLoop(Drop(attr, 1), max, field \o <<Ord(attr[1])>>)

\* if (attrlen && outlen == max), with and without the test for input
\* that is left.
AttrInputLeft == TRUE
AttrInputAny == FALSE

\* parse_uri_attr_len after its loop, l being what the loop left.
AttrReturn(l, max, inputLeft) ==
    IF l.ret = 1 /\ (~inputLeft \/ l.attr # <<>>) /\ Len(l.field) = max
    THEN [ret |-> 0, field |-> l.field, field_len |-> max]
    ELSE [ret |-> l.ret, field |-> l.field,
          field_len |-> IF l.ret = 1 THEN Len(l.field) ELSE max]

\* parse_uri_attr_len that fails whenever the buffer is full, input being
\* left or not.
parse_uri_attr_lenFull(attr, max) ==
    AttrReturn(AttrLoop(attr, max, <<>>), max, AttrInputAny)

\* parse_uri_attr_len(ctx, attr, attrlen, field, field_len) with
\* *field_len = max on entry: [ret, field, field_len].
parse_uri_attr_len(attr, max) ==
    AttrReturn(AttrLoop(attr, max, <<>>), max, AttrInputLeft)

\* A call of parse_uri_attr_len that has not run yet; bytes is what attr
\* was encoded from, if it was.
NewAttrCall(attr, max, bytes) ==
    [phase |-> "attrcall", attr |-> attr, max |-> max, bytes |-> bytes,
     out |-> [ret |-> 1, field |-> <<>>, field_len |-> max]]

\* parse_pkcs11_uri hands the value of id= or pin-value= to the decoder.
AttrCall ==
    /\ parse.phase = "attrcall"
    /\ parse' = [parse EXCEPT
                    !.phase = "attrreturned",
                    !.out = parse_uri_attr_len(parse.attr, parse.max)]
    /\ UNCHANGED <<cryptoVars, lookupVars, objsel, slotsel, pinmem, search,
                   mech, pinuse>>

\* The string s as bytes.
Bytes(s) == [i \in 1..Len(s) |-> Ord(s[i])]

UriScheme == <<"p", "k", "c", "s", "1", "1", ":">>
KwModel == <<"m", "o", "d", "e", "l", "=">>
KwManufacturer ==
    <<"m", "a", "n", "u", "f", "a", "c", "t", "u", "r", "e", "r", "=">>
KwToken == <<"t", "o", "k", "e", "n", "=">>
KwSerial == <<"s", "e", "r", "i", "a", "l", "=">>
KwObject == <<"o", "b", "j", "e", "c", "t", "=">>
KwUriId == <<"i", "d", "=">>
KwPinValue == <<"p", "i", "n", "-", "v", "a", "l", "u", "e", "=">>
KwPinSource == <<"p", "i", "n", "-", "s", "o", "u", "r", "c", "e", "=">>
KwType == <<"t", "y", "p", "e", "=">>
KwObjectType ==
    <<"o", "b", "j", "e", "c", "t", "-", "t", "y", "p", "e", "=">>
Cert == <<"c", "e", "r", "t">>
Public == <<"p", "u", "b", "l", "i", "c">>
Private == <<"p", "r", "i", "v", "a", "t", "e">>
Separators == {";", "?", "&"}

\* The files there are: one line without a newline, one line with it, two
\* lines, nothing at all.
PinFiles ==
    {[path |-> Bytes(<<"/", "p">>), content |-> <<49, 50>>],
     [path |-> Bytes(<<"/", "n">>), content |-> <<49, 50, 10>>],
     [path |-> Bytes(<<"/", "m">>), content |-> <<49, 50, 10, 51, 10>>],
     [path |-> Bytes(<<"/", "e">>), content |-> <<>>]}

Readable(path) == \E f \in PinFiles : f.path = path
ContentOf(path) == (CHOOSE f \in PinFiles : f.path = path).content

\* BIO_gets(fp, txt, size) on a file that has just been opened: the bytes
\* up to and with the first newline, size - 1 of them at most.
BIO_gets(content, size) ==
    LET eol == {i \in 1..Len(content) : content[i] = 10}
        line == IF eol = {} THEN Len(content)
                ELSE CHOOSE i \in eol : \A j \in eol : i <= j
    IN  SubSeq(content, 1, IF line < size - 1 THEN line ELSE size - 1)

\* strcspn(s, reject); strpbrk and strchr find the character at this
\* offset.
strcspn(s, reject) ==
    IF \A i \in 1..Len(s) : s[i] \notin reject THEN Len(s)
    ELSE (CHOOSE i \in 1..Len(s) :
             s[i] \in reject /\ \A j \in 1..(i - 1) : s[j] \notin reject) - 1

\* tolower(b)
ToLower(b) == IF b >= 65 /\ b <= 90 THEN b + 32 ELSE b

\* strncasecmp(val, "file:", 5) == 0
HasFilePrefix(val) ==
    /\ Len(val) >= 5
    /\ [i \in 1..5 |-> ToLower(val[i])] = Bytes(<<"f", "i", "l", "e", ":">>)

\* parse_uri_attr(ctx, attr, attrlen, &field): [ret, val], val being the
\* decoded string when ret is 1.
AttrString(r) == [ret |-> r.ret, val |-> SubSeq(r.field, 1, r.field_len)]
parse_uri_attr(attr) == AttrString(parse_uri_attr_len(attr, Len(attr) + 1))

\* parse_pin_source(ctx, attr, attrlen, field, field_len): [ok, field,
\* field_len, txt] as read_from_file gives them.
ReadPath(path, field, field_len) ==
    IF Readable(path)
    THEN read_from_file(TRUE, BIO_gets(ContentOf(path), field_len + 1), field)
    ELSE read_from_file(FALSE, <<>>, field)

PinSourceFailed(field, field_len) ==
    [ok |-> FALSE, field |-> field, field_len |-> field_len, txt |-> <<>>]

PinSource(v, field, field_len) ==
    IF v.ret = 0 THEN PinSourceFailed(field, field_len)
    ELSE IF HasFilePrefix(v.val) THEN ReadPath(Drop(v.val, 5), field, field_len)
    ELSE IF v.val # <<>> /\ v.val[1] = 124
    THEN PinSourceFailed(field, field_len)
    ELSE ReadPath(v.val, field, field_len)

parse_pin_source(attr, field, field_len) ==
    PinSource(parse_uri_attr(attr), field, field_len)

\* Every type goes.
AnyType(v) == TRUE

\* The type is one of cert, public, private.
ValidType(v) == v \in {Cert, Public, Private}

\* Where parse_pkcs11_uri stands: rv, *tok, newlabel, the id and pin
\* buffers with *id_len and *pin_len, id_set and pin_set.
NullTok ==
    [model |-> NullLabel, manufacturer |-> NullLabel, label |-> NullLabel,
     serialnr |-> NullLabel]

UriStart(id_len, pinbuf) ==
    [rv |-> 1, tok |-> NullTok, newlabel |-> NullLabel,
     id |-> <<>>, id_len |-> id_len, id_set |-> FALSE,
     pin |-> pinbuf, pin_len |-> MAX_PIN_LENGTH, pin_set |-> FALSE]

\* rv = parse_uri_attr(ctx, p, end - p, &field), v being what it returns:
\* the state after it, the field being the one named which.
StringAttr(st, which, v) ==
    IF v.ret = 0 THEN [st EXCEPT !.rv = 0]
    ELSE IF which = "newlabel" THEN [st EXCEPT !.newlabel = LabelOf(v.val)]
    ELSE [st EXCEPT !.tok[which] = LabelOf(v.val)]

\* id=, pin-value= and pin-source=, r being what the decoder returns.
IdAttr(st, r) ==
    [st EXCEPT !.rv = r.ret, !.id = r.field \o Drop(st.id, Len(r.field)),
               !.id_len = r.field_len, !.id_set = TRUE]

PinValueAttr(st, r) ==
    [st EXCEPT !.rv = r.ret, !.pin = Overwrite(st.pin, r.field),
               !.pin_len = r.field_len, !.pin_set = TRUE]

PinSourceAttr(st, r) ==
    [st EXCEPT !.rv = IF r.ok THEN 1 ELSE 0, !.pin = r.field,
               !.pin_len = r.field_len, !.pin_set = TRUE]

\* One round of the loop of parse_pkcs11_uri on the attribute p .. end.
UriAttr(st, attr) ==
    IF StartsWith(attr, KwModel)
    THEN StringAttr(st, "model", parse_uri_attr(Drop(attr, 6)))
    ELSE IF StartsWith(attr, KwManufacturer)
    THEN StringAttr(st, "manufacturer", parse_uri_attr(Drop(attr, 13)))
    ELSE IF StartsWith(attr, KwToken)
    THEN StringAttr(st, "label", parse_uri_attr(Drop(attr, 6)))
    ELSE IF StartsWith(attr, KwSerial)
    THEN StringAttr(st, "serialnr", parse_uri_attr(Drop(attr, 7)))
    ELSE IF StartsWith(attr, KwObject)
    THEN StringAttr(st, "newlabel", parse_uri_attr(Drop(attr, 7)))
    ELSE IF StartsWith(attr, KwUriId)
    THEN IdAttr(st, parse_uri_attr_len(Drop(attr, 3), st.id_len))
    ELSE IF StartsWith(attr, KwPinValue)
    THEN IF st.pin_set THEN [st EXCEPT !.rv = 0]
         ELSE PinValueAttr(st, parse_uri_attr_len(Drop(attr, 10), st.pin_len))
    ELSE IF StartsWith(attr, KwPinSource)
    THEN IF st.pin_set THEN [st EXCEPT !.rv = 0]
         ELSE PinSourceAttr(st, parse_pin_source(Drop(attr, 11), st.pin,
                                                 st.pin_len))
    ELSE IF StartsWith(attr, KwType) \/ StartsWith(attr, KwObjectType)
    THEN IF ValidType(Drop(attr, strcspn(attr, {"="}) + 1))
         THEN st
         ELSE [st EXCEPT !.rv = 0]
    ELSE [st EXCEPT !.rv = 0]

RECURSIVE UriLoop(_, _)
\* while (rv && end[0] && end[1]), end being the rest of the URI.
UriLoop(st, end) ==
    IF st.rv = 0 \/ Len(end) < 2 THEN st
    ELSE UriLoop(UriAttr(st, SubSeq(end, 2,
                                     1 + strcspn(Drop(end, 1), Separators))),
                 Drop(end, 1 + strcspn(Drop(end, 1), Separators)))

\* What parse_pkcs11_uri(ctx, uri, &match_tok, id, &id_len, pin, &pin_len,
\* &label) returns and leaves behind, match_tok and label being NULL
\* before the call: [rv, p_tok, label, id, id_len, pin, pin_len].
UriReturn(st) ==
    [rv |-> st.rv,
     p_tok |-> IF st.rv = 1 THEN [null |-> FALSE, tok |-> st.tok]
               ELSE NullLabel,
     label |-> IF st.rv = 1 THEN st.newlabel ELSE NullLabel,
     id |-> st.id,
     id_len |-> IF st.id_set THEN st.id_len ELSE 0,
     pin |-> st.pin,
     pin_len |-> IF st.pin_set THEN st.pin_len ELSE 0]

parse_pkcs11_uri(uri, id_len, pinbuf) ==
    UriReturn(UriLoop(UriStart(id_len, pinbuf), Drop(uri, 6)))

\* A call of parse_pkcs11_uri that has not run yet; attrs are the
\* attributes uri was made of.
NewUriCall(uri, attrs) ==
    [phase |-> "uricall", uri |-> uri, attrs |-> attrs,
     out |-> [rv |-> 1, p_tok |-> NullLabel, label |-> NullLabel,
              id |-> <<>>, id_len |-> Len(uri) + 1,
              pin |-> Fresh(MAX_PIN_LENGTH + 1),
              pin_len |-> MAX_PIN_LENGTH]]

\* ctx_try_load_object hands a pkcs11: URI to the parser.
UriCall ==
    /\ parse.phase = "uricall"
    /\ parse' = [parse EXCEPT
                    !.phase = "urireturned",
                    !.out = parse_pkcs11_uri(parse.uri, Len(parse.uri) + 1,
                                             Fresh(MAX_PIN_LENGTH + 1))]
    /\ UNCHANGED <<cryptoVars, lookupVars, objsel, slotsel, pinmem, search,
                   mech, pinuse>>

(***************************************************************************)
(* Part III g: the lookup of an identifier.  ctx_load_object with the      *)
(* identifier as a string: each pass parses it and, if it parses, goes on  *)
(* as in Part II.                                                          *)
(***************************************************************************)

\* How the PINs and the labels of Part II are spelt.
PinSpelling(q) ==
    IF q = "1234" THEN <<"1", "2", "3", "4">> ELSE <<"9", "9", "9", "9">>
PinName(bytes) == CHOOSE q \in PinValues : Bytes(PinSpelling(q)) = bytes
LabelName(bytes) == CHOOSE l \in Labels : <<Ord(l)>> = bytes

\* strncasecmp(object_uri, "pkcs11:", 7) == 0
HasScheme(ident) ==
    /\ Len(ident) >= 7
    /\ [i \in 1..7 |-> ToLower(Ord(ident[i]))] = Bytes(UriScheme)

\* The parse of ctx_try_load_object: [ok, sel, uriPin], sel being the
\* label of match_tok and uriPin the PIN that ctx_ctrl_set_pin is to get.
UriIdent(o) ==
    IF o.rv = 0
    THEN [ok |-> FALSE, sel |-> NoLabel, uriPin |-> NoPin]
    ELSE [ok |-> TRUE,
          sel |-> IF o.p_tok.tok.label = NullLabel THEN NoLabel
                  ELSE LabelName(o.p_tok.tok.label.str),
          uriPin |-> IF o.pin_len > 0 /\ o.pin[1] # 0
                     THEN PinName(SubSeq(o.pin, 1, o.pin_len))
                     ELSE NoPin]

IdentParse(ident) ==
    IF HasScheme(ident)
    THEN UriIdent(parse_pkcs11_uri(ident, Len(ident) + 1,
                                   Fresh(MAX_PIN_LENGTH + 1)))
    ELSE [ok |-> parse_slot_id_string(ident, ParseArgs(ident), TRUE).ret = 1,
          sel |-> NoLabel, uriPin |-> NoPin]

\* The parse has failed and the pass, were it to destroy the PIN of the
\* context on its way out.
ParseFailedDestroysPin(login) ==
    /\ pin' = NoPin
    /\ pin_length' = 0
    /\ forced_pin' = FALSE
    /\ lk' = [lk EXCEPT !.phase = AfterPass(0, login), !.passes = @ + 1,
                        !.obj = 0]
    /\ UNCHANGED logged_in

\* The parse has failed: the pass logs the error and returns NULL through
\* cleanup.
ParseFailed(login) ==
    /\ lk' = [lk EXCEPT !.phase = AfterPass(0, login), !.passes = @ + 1,
                        !.obj = 0]
    /\ UNCHANGED <<pin, pin_length, forced_pin, logged_in>>

\* One pass of ctx_try_load_object on the identifier.
PassOn(o, login, env) ==
    IF o.ok THEN RunPass(o.sel, o.uriPin, login, env) ELSE ParseFailed(login)

IdentPass(login, env) == PassOn(IdentParse(parse.ident), login, env)

\* ctx_load_object, first pass: without login, unless login is forced.
IdentNoLoginPass ==
    /\ parse.phase = "ident"
    /\ lk.phase = "idle"
    /\ ~force_login
    /\ IdentPass(FALSE, QuietEnv)
    /\ UNCHANGED <<cryptoVars, callVars, slot_list, force_login>>

\* ctx_load_object, the pass with login.
IdentLoginPass ==
    /\ parse.phase = "ident"
    /\ lk.phase = "pass0" \/ (lk.phase = "idle" /\ force_login)
    /\ \E env \in LoginEnvs : IdentPass(TRUE, env)
    /\ UNCHANGED <<cryptoVars, callVars, slot_list, force_login>>

\* ctx_load_object returns the object, or NULL.
IdentReturn ==
    /\ parse.phase = "ident"
    /\ lk.phase = "done"
    /\ parse' = [parse EXCEPT !.phase = "lookedup"]
    /\ UNCHANGED <<cryptoVars, lookupVars, objsel, slotsel, pinmem, search,
                   mech, pinuse>>

-----------------------------------------------------------------------------
(* Part IV a: the translation of PSS and OAEP parameters (p11_pkey.c)      *)

\* The digests an EVP_PKEY_CTX can name: those pkcs11_md2ckm knows, and
\* two it does not.
MappedDigests == {"sha1", "sha224", "sha256", "sha384", "sha512"}
Digests == MappedDigests \cup {"md5", "sha3_256"}

\* EVP_MD_size(md), in bytes.
EVP_MD_size(md) ==
    CASE md = "md5" -> 16
      [] md = "sha1" -> 20
      [] md = "sha224" -> 28
      [] md = "sha256" -> 32
      [] md = "sha3_256" -> 32
      [] md = "sha384" -> 48
      [] md = "sha512" -> 64

\* The value 0 of a CK_MECHANISM_TYPE or CK_RSA_PKCS_MGF_TYPE.
CK_ZERO == "0"

\* pkcs11_md2ckm
pkcs11_md2ckm(md) ==
    CASE md = "sha1" -> "CKM_SHA_1"
      [] md = "sha224" -> "CKM_SHA224"
      [] md = "sha256" -> "CKM_SHA256"
      [] md = "sha512" -> "CKM_SHA512"
      [] md = "sha384" -> "CKM_SHA384"
      [] OTHER -> CK_ZERO

\* pkcs11_md2ckg
pkcs11_md2ckg(md) ==
    CASE md = "sha1" -> "CKG_MGF1_SHA1"
      [] md = "sha224" -> "CKG_MGF1_SHA224"
      [] md = "sha256" -> "CKG_MGF1_SHA256"
      [] md = "sha512" -> "CKG_MGF1_SHA512"
      [] md = "sha384" -> "CKG_MGF1_SHA384"
      [] OTHER -> CK_ZERO

\* The sizes of the RSA keys, in bits: around the least sizes that leave
\* room for a salt with sha256, and common ones.
KeyBits == {264, 265, 272, 273, 512, 513, 1024, 1025, 2048}

\* EVP_PKEY_CTX_get0_pkey returning NULL.
NoPkey == 0

\* EVP_PKEY_size(pkey), in bytes. EVP_PKEY_bits(pkey) is the key itself.
EVP_PKEY_size(bits) == (bits + 7) \div 8

\* The salt lengths a caller can set: RSA_PSS_SALTLEN_MAX (-3),
\* RSA_PSS_SALTLEN_AUTO (-2), RSA_PSS_SALTLEN_DIGEST (-1), and lengths.
SaltLens == {-3, -2, -1, 0, 20, 32}

\* An int stored in a CK_ULONG: the value wraps * 2^64 + low.
CkUlong(x) == [wraps |-> IF x < 0 THEN 1 ELSE 0, low |-> x]

\* A parameter structure on the stack that nothing has been written to.
Indeterminate == "indeterminate"
UnsetParams ==
    [hashAlg |-> Indeterminate, mgf |-> Indeterminate,
     sLen |-> [wraps |-> 0, low |-> 0], set |-> FALSE]

PssParams(hashAlg, mgf, sLen) ==
    [hashAlg |-> hashAlg, mgf |-> mgf, sLen |-> CkUlong(sLen), set |-> TRUE]

\* The salt length of case -2, were the top bit of the key not to count.
MaxSaltLenUnadjusted(bits, md) == EVP_PKEY_size(bits) - EVP_MD_size(md) - 2

\* The salt length of case -2, before the test for underflow.
MaxSaltLen(bits, md) ==
    IF (bits - 1) % 8 = 0
    THEN EVP_PKEY_size(bits) - EVP_MD_size(md) - 2 - 1
    ELSE EVP_PKEY_size(bits) - EVP_MD_size(md) - 2

\* What an EVP_PKEY_CTX answers to pkcs11_params_pss: whether each getter
\* succeeds, the digests, the salt length and the key.
PkeyCtxs ==
    [sigOk : BOOLEAN, mgfOk : BOOLEAN, saltOk : BOOLEAN, sig_md : Digests,
     mgf1_md : Digests, salt_len : SaltLens, pkey : KeyBits \cup {NoPkey}]

\* pkcs11_params_pss(pss, ctx): [ret, pss], pss0 being *pss on entry.
pkcs11_params_pss(pss0, cx) ==
    IF ~cx.sigOk \/ ~cx.mgfOk \/ ~cx.saltOk
    THEN [ret |-> -1, pss |-> pss0]
    ELSE IF cx.salt_len = -2 /\ cx.pkey = NoPkey
    THEN [ret |-> -1, pss |-> pss0]
    ELSE IF cx.salt_len = -2 /\ MaxSaltLen(cx.pkey, cx.sig_md) < 0
    THEN [ret |-> -1, pss |-> pss0]
    ELSE LET salt_len ==
                 IF cx.salt_len = -1 THEN EVP_MD_size(cx.sig_md)
                 ELSE IF cx.salt_len = -2
                 THEN MaxSaltLen(cx.pkey, cx.sig_md)
                 ELSE cx.salt_len
             hashAlg == pkcs11_md2ckm(cx.sig_md)
             mgf == pkcs11_md2ckg(cx.mgf1_md)
         IN  IF hashAlg = CK_ZERO \/ mgf = CK_ZERO
             THEN [ret |-> -1, pss |-> PssParams(hashAlg, mgf, 0)]
             ELSE [ret |-> 0, pss |-> PssParams(hashAlg, mgf, salt_len)]

\* A call of pkcs11_params_pss about to be made.
PssCalls == [phase : {"call"}, cx : PkeyCtxs, ret : {0}, pss : {UnsetParams}]

PssCall ==
    /\ mech.phase = "call"
    /\ LET r == pkcs11_params_pss(mech.pss, mech.cx) IN
       mech' = [mech EXCEPT !.phase = "returned", !.ret = r.ret,
                            !.pss = r.pss]
    /\ UNCHANGED <<cryptoVars, lookupVars, objsel, slotsel, pinmem, search,
                   parse, pinuse>>

-----------------------------------------------------------------------------
(* Part IV b: the mechanism of a sign or decrypt call (p11_pkey.c)         *)
(*                                                                         *)
(* One thread calls pkcs11_pkey_rsa_sign and pkcs11_pkey_rsa_decrypt, one  *)
(* call after the other, each call a step. The state is that of Part I     *)
(* (rwlock, sign_initialized, decrypt_initialized) and, in mech, the       *)
(* operations the token session has under way.                             *)

MaxMechCalls == 2

\* The thread of Part IV b.
Caller == "t1"

\* CK_MECHANISM
Mechanism(type, pParameter, ulParameterLen) ==
    [mechanism |-> type, pParameter |-> pParameter,
     ulParameterLen |-> ulParameterLen]

\* pParameter = NULL
NullParams ==
    [hashAlg |-> "NULL", mgf |-> "NULL", sLen |-> [wraps |-> 0, low |-> 0],
     set |-> TRUE]

\* No mechanism was handed over.
NoMechanism == Mechanism("none", NullParams, "0")

\* CK_RSA_PKCS_OAEP_PARAMS after pkcs11_params_oaep: hash, MGF and, in
\* sLen's place, the length of the source data, which is 0 for the empty
\* label (source 0, pSourceData NULL).
OaepParams(hashAlg, mgf) ==
    [hashAlg |-> hashAlg, mgf |-> mgf, sLen |-> [wraps |-> 0, low |-> 0],
     set |-> TRUE]

\* pkcs11_params_oaep(oaep, ctx): [ret, oaep]. The digest of the operation
\* (sig_md of the context record) is the OAEP digest here.
pkcs11_params_oaep(oaep0, cx) ==
    IF ~cx.sigOk \/ ~cx.mgfOk
    THEN [ret |-> -1, oaep |-> oaep0]
    ELSE LET hashAlg == pkcs11_md2ckm(cx.sig_md)
             mgf == pkcs11_md2ckg(cx.mgf1_md)
         IN  [ret |-> IF hashAlg = CK_ZERO \/ mgf = CK_ZERO THEN -1 ELSE 0,
              oaep |-> OaepParams(hashAlg, mgf)]

\* The operation a session has under way: the mechanism and the key it
\* was initialized with; none.
Operation(m, key) == [mechanism |-> m, key |-> key]
NoOperation == Operation(NoMechanism, NoKey)

\* The contexts of the requests: every getter answers; the digest is one
\* of two mapped ones or an unmapped one.
RequestCtxs ==
    [sigOk : {TRUE}, mgfOk : {TRUE}, saltOk : {TRUE},
     sig_md : {"sha256", "sha512", "sha3_256"},
     mgf1_md : {"sha256", "md5"}, salt_len : {-1, 20}, pkey : {2048}]

\* The length the token reports for a signature or plaintext, and the
\* length *siglen / *outlen holds when the wrapper is called.
TokenLen == 256
CallerLen == 512

SignRequests ==
    [op : {"sign"}, key : Keys \cup {NoKey}, padding : SignPaddings,
     cx : RequestCtxs, tbslen : {32, 64}, outNull : BOOLEAN,
     bufOk : {TRUE}]

DecryptRequests ==
    [op : {"decrypt"}, key : Keys \cup {NoKey}, padding : DecryptPaddings,
     cx : RequestCtxs, tbslen : {32}, outNull : BOOLEAN, bufOk : BOOLEAN]

\* What the token answers to the init, the authentication and the
\* primitive, and what an indeterminate mechanism type happens to be.
MechEnvs ==
    [init : TokenRvs, auth : TokenRvs, prim : TokenRvs, orig : OrigRets,
     garbage : {"CKM_RSA_PKCS", "CKM_RSA_PKCS_OAEP", "CKM_OTHER"}]

\* The state a call works on.
CallState(si, di, lock, signOp, decOp) ==
    [si |-> si, di |-> di, lock |-> lock, signOp |-> signOp,
     decOp |-> decOp]

\* The outcome of a try function: the state it leaves, its return value,
\* the mechanism it handed to the init (NoMechanism for none), the
\* operation the primitive ran under (NoOperation for none), whether it
\* called CRYPTO_THREAD_write_lock, whether every token call it issued
\* returned CKR_OK, and whether *siglen / *outlen was written.
Outcome2(st, ret, initMech, primOp, locks, tokenOk, lenWritten) ==
    [st |-> st, ret |-> ret, initMech |-> initMech, primOp |-> primOp,
     locks |-> locks, tokenOk |-> tokenOk, lenWritten |-> lenWritten]

\* try returned -1 before the lock and before any token call.
NotTried(st) ==
    Outcome2(st, -1, NoMechanism, NoOperation, FALSE, TRUE, FALSE)

\* The rest of a try function once the mechanism init is over or skipped:
\* st is the state then, rv the value of rv, op the operation under way,
\* auth whether the authentication is called when rv is zero.
FromInit(st, rq, env, rv, initMech, locks, auth) ==
    LET op == IF rq.op = "sign" THEN st.signOp ELSE st.decOp
        rvAuth == IF rv = CKR_OK /\ auth THEN env.auth ELSE rv
        prim == rvAuth = CKR_OK
        rvPrim == IF ~prim THEN rvAuth
                  ELSE IF op = NoOperation THEN CKR_ERR
                  ELSE env.prim
        flag == rvPrim = CKR_OK /\ rq.outNull
        opAfter == IF prim /\ ~flag THEN NoOperation ELSE op
        lock == IF flag THEN st.lock ELSE NoThread
        st2 == IF rq.op = "sign"
               THEN CallState(flag, st.di, lock, opAfter, st.decOp)
               ELSE CallState(st.si, flag, lock, st.signOp, opAfter)
        ret == IF rvPrim # CKR_OK THEN -1
               ELSE IF rq.op = "decrypt" /\ ~rq.outNull /\ ~rq.bufOk THEN -1
               ELSE 1
    IN  Outcome2(st2, ret, initMech, IF prim THEN op ELSE NoOperation, locks,
                 rvPrim = CKR_OK, ret = 1)

\* The mechanism init: the lock is taken and the token initializes the
\* operation, or refuses.
WithInit(st, rq, env, m, auth) ==
    LET op == IF env.init = CKR_OK THEN Operation(m, rq.key)
              ELSE IF rq.op = "sign" THEN st.signOp ELSE st.decOp
        st1 == IF rq.op = "sign"
               THEN CallState(st.si, st.di, Caller, op, st.decOp)
               ELSE CallState(st.si, st.di, Caller, st.signOp, op)
    IN  FromInit(st1, rq, env, env.init, m, TRUE, auth)

\* pkcs11_try_pkey_rsa_sign
pkcs11_try_pkey_rsa_sign(st, rq, env) ==
    IF rq.key = NoKey
    THEN NotTried(st)
    ELSE IF ~rq.cx.sigOk \/ rq.tbslen # EVP_MD_size(rq.cx.sig_md)
    THEN NotTried(st)
    ELSE IF ~st.si
    THEN IF rq.padding # "PSS"
         THEN NotTried(st)
         ELSE LET p == pkcs11_params_pss(UnsetParams, rq.cx) IN
              IF p.ret < 0
              THEN NotTried(st)
              ELSE WithInit(st, rq, env,
                            Mechanism("CKM_RSA_PKCS_PSS", p.pss,
                                      "sizeof params"),
                            always_authenticate(rq.key))
    ELSE FromInit(st, rq, env, CKR_OK, NoMechanism, FALSE, FALSE)

\* The mechanism of case CKM_RSA_PKCS: pParameter and ulParameterLen are
\* assigned, mechanism.mechanism is what the stack held.
RawMechanism(garbage) == Mechanism(garbage, NullParams, "0")

\* pkcs11_try_pkey_rsa_decrypt
pkcs11_try_pkey_rsa_decrypt(st, rq, env) ==
    IF rq.key = NoKey
    THEN NotTried(st)
    ELSE IF ~st.di
    THEN IF rq.padding = "OAEP"
         THEN LET p == pkcs11_params_oaep(UnsetParams, rq.cx) IN
              IF p.ret < 0
              THEN NotTried(st)
              ELSE WithInit(st, rq, env,
                            Mechanism("CKM_RSA_PKCS_OAEP", p.oaep,
                                      "sizeof oaep_params"),
                            always_authenticate(rq.key))
         ELSE IF rq.padding = "PKCS1"
         THEN WithInit(st, rq, env, RawMechanism(env.garbage),
                       always_authenticate(rq.key))
         ELSE NotTried(st)
    ELSE FromInit(st, rq, env, CKR_OK, NoMechanism, FALSE,
                  always_authenticate(rq.key))

\* No request is being served; n calls have returned.
IdleMech(n, signOp, decOp) ==
    [phase |-> "ready", n |-> n, signOp |-> signOp, decOp |-> decOp,
     rq |-> [op |-> "none"], out |-> NotTried(CallState(FALSE, FALSE,
                                                        NoThread, NoOperation,
                                                        NoOperation)),
     origCalled |-> FALSE, ret |-> 0, len |-> CallerLen, entry |-> FALSE]

\* pkcs11_pkey_rsa_sign / pkcs11_pkey_rsa_decrypt for the request rq: the
\* try function, then the original implementation if try returned -1.
\* A try function that takes the lock while the thread holds it from a
\* size query goes on only if the lock lets it.
Serve(rq, env) ==
    LET st == CallState(sign_initialized, decrypt_initialized, rwlock,
                        mech.signOp, mech.decOp)
        r == IF rq.op = "sign" THEN pkcs11_try_pkey_rsa_sign(st, rq, env)
             ELSE pkcs11_try_pkey_rsa_decrypt(st, rq, env)
    IN  \/ /\ sign_initialized' = r.st.si
           /\ decrypt_initialized' = r.st.di
           /\ rwlock' = r.st.lock
           /\ mech' = [mech EXCEPT
                         !.phase = "returned",
                         !.signOp = r.st.signOp, !.decOp = r.st.decOp,
                         !.rq = rq, !.out = [r EXCEPT !.st = st],
                         !.origCalled = r.ret < 0,
                         !.ret = IF r.ret < 0 THEN env.orig ELSE r.ret,
                         !.len = IF r.lenWritten THEN TokenLen ELSE CallerLen,
                         !.entry = IF rq.op = "sign" THEN st.si ELSE st.di]
        \/ /\ r.locks /\ rwlock # NoThread
           /\ mech' = [mech EXCEPT !.phase = "blocked", !.rq = rq]
           /\ UNCHANGED <<rwlock, sign_initialized, decrypt_initialized>>

MechSign ==
    /\ mech.phase = "ready"
    /\ mech.n < MaxMechCalls
    /\ \E rq \in SignRequests, env \in MechEnvs : Serve(rq, env)
    /\ UNCHANGED <<pc, call, span, lookupVars, objsel, slotsel, pinmem,
                   search, parse, pinuse>>

MechDecrypt ==
    /\ mech.phase = "ready"
    /\ mech.n < MaxMechCalls
    /\ \E rq \in DecryptRequests, env \in MechEnvs : Serve(rq, env)
    /\ UNCHANGED <<pc, call, span, lookupVars, objsel, slotsel, pinmem,
                   search, parse, pinuse>>

\* The wrapper has returned; the thread is free to call again.
MechReturn ==
    /\ mech.phase = "returned"
    /\ mech' = IdleMech(mech.n + 1, mech.signOp, mech.decOp)
    /\ UNCHANGED <<cryptoVars, lookupVars, objsel, slotsel, pinmem, search,
                   parse, pinuse>>

-----------------------------------------------------------------------------
(* Part IV c: the PIN buffer of a context under two threads                *)
(*                                                                         *)
(* ctx->pin is a pointer into the heap.  ctx_destroy_pin, ctx_get_pin and  *)
(* ctx_login free, allocate, write and read what it points to; every one   *)
(* of these accesses is a step of its own here, so that two threads can    *)
(* interleave between any two of them.  The functions of util_uri.c take   *)
(* no lock themselves: the critical section around a lookup or login is    *)
(* taken by their callers, which are outside src/, and is modelled from    *)
(* the specification (SectionFree, PuRequest, PuEnter, PuLeave).           *)

MaxPinBufs == 2
\* The addresses OPENSSL_malloc can return.
Buffers == 1..MaxPinBufs
NullPtr == 0

\* What a thread does inside the section: ctx_ctrl_set_pin with the PIN of
\* a URI, or ctx_login with the token's secureLogin, the outcome of the
\* user interface and the outcome of PKCS11_login.
PinOps ==
    [op : {"set"}, secureLogin : {FALSE}, ui : {"ok"}, loginOk : {TRUE}]
        \cup [op : {"login"}, secureLogin : BOOLEAN,
              ui : {"ok", "ui_new_failed", "prompt_failed"},
              loginOk : BOOLEAN]

NoPinOp == [op |-> "none", secureLogin |-> FALSE, ui |-> "ok", loginOk |-> TRUE]

\* A thread: where it stands, what it is doing, and the buffer it has
\* handed to PKCS11_login or to the user interface and not got back yet.
PinThread(at, op, holds) == [pc |-> at, env |-> op, holds |-> holds]

IdlePinUse ==
    [phase |-> "threads", pin |-> NullPtr, forced_pin |-> FALSE, live |-> {},
     owner |-> NoThread,
     th |-> [t \in Threads |-> PinThread("idle", NoPinOp, NullPtr)],
     freedTwice |-> FALSE, clash |-> FALSE]

\* Another thread than t has the buffer b in use.
HeldByOther(u, t, b) ==
    b # NullPtr /\ \E o \in Threads \ {t} : u.th[o].holds = b

\* The critical section, were it to let every thread in.
SectionAlwaysFree(u, t) == TRUE

\* The critical section of the authentication coordinator is free for t.
SectionFree(u, t) == u.owner = NoThread

\* OPENSSL_malloc: an address not in use, or NULL.
MallocResults(u) == (Buffers \ u.live) \cup {NullPtr}

\* ctx_destroy_pin by thread t: cleanse, free, and clear the fields.
DestroyPinBuffer(u, t) ==
    IF u.pin # NullPtr
    THEN [u EXCEPT !.live = @ \ {u.pin},
                   !.freedTwice = @ \/ u.pin \notin u.live,
                   !.clash = @ \/ HeldByOther(u, t, u.pin),
                   !.pin = NullPtr,
                   !.forced_pin = FALSE]
    ELSE u

\* ctx->pin = OPENSSL_malloc(...) giving b, and the memset or copy into it.
AllocPinBuffer(u, t, b) ==
    IF b = NullPtr
    THEN [u EXCEPT !.pin = NullPtr]
    ELSE [u EXCEPT !.pin = b, !.live = @ \cup {b},
                   !.clash = @ \/ HeldByOther(u, t, b)]

\* The thread t moves to pc at, holding the buffer h.
Moved(u, t, at, h) == [u EXCEPT !.th[t].pc = at, !.th[t].holds = h]

PinUseUnchanged ==
    UNCHANGED <<cryptoVars, lookupVars, objsel, slotsel, pinmem, search,
                parse, mech>>

\* A thread starts a lookup or login and asks for the section.
PuRequest(t) ==
    /\ pinuse.th[t].pc = "idle"
    /\ \E op \in PinOps :
          pinuse' = [pinuse EXCEPT !.th[t] = PinThread("waiting", op, NullPtr)]
    /\ PinUseUnchanged

PuEnter(t) ==
    /\ pinuse.th[t].pc = "waiting"
    /\ SectionFree(pinuse, t)
    /\ pinuse' = [Moved(pinuse, t, pinuse.th[t].env.op, NullPtr)
                     EXCEPT !.owner = t]
    /\ PinUseUnchanged

\* ctx_ctrl_set_pin, first half: the old PIN is destroyed.
PuSetDestroy(t) ==
    /\ pinuse.th[t].pc = "set"
    /\ pinuse' = Moved(DestroyPinBuffer(pinuse, t), t, "set_copy", NullPtr)
    /\ PinUseUnchanged

\* ctx_ctrl_set_pin, second half: the new PIN is copied into a new buffer.
PuSetCopy(t) ==
    /\ pinuse.th[t].pc = "set_copy"
    /\ \E b \in MallocResults(pinuse) :
          pinuse' = Moved([AllocPinBuffer(pinuse, t, b)
                              EXCEPT !.forced_pin = (b # NullPtr)],
                          t, "leave", NullPtr)
    /\ PinUseUnchanged

\* ctx_login up to the call of ctx_get_pin.
PuLoginStart(t) ==
    /\ pinuse.th[t].pc = "login"
    /\ IF pinuse.th[t].env.secureLogin /\ ~pinuse.forced_pin
       THEN pinuse' = Moved(DestroyPinBuffer(pinuse, t), t, "login_call",
                            NullPtr)
       ELSE IF pinuse.pin = NullPtr
       THEN \E b \in MallocResults(pinuse) :
               pinuse' = Moved(AllocPinBuffer(pinuse, t, b), t,
                               IF b = NullPtr THEN "leave" ELSE "get_pin",
                               NullPtr)
       ELSE pinuse' = Moved(pinuse, t, "login_call", NullPtr)
    /\ PinUseUnchanged

\* ctx_get_pin up to UI_process: the buffer is destroyed, a new one
\* allocated, zeroed and given to the user interface as its result buffer.
PuGetPin(t) ==
    /\ pinuse.th[t].pc = "get_pin"
    /\ IF pinuse.th[t].env.ui = "ui_new_failed"
       THEN pinuse' = Moved(pinuse, t, "get_pin_failed", NullPtr)
       ELSE LET d == DestroyPinBuffer(pinuse, t) IN
            \E b \in MallocResults(d) :
               pinuse' = Moved(AllocPinBuffer(d, t, b), t,
                               IF b = NullPtr THEN "get_pin_failed"
                               ELSE "prompt",
                               b)
    /\ PinUseUnchanged

\* UI_process writes what the user types into the buffer it was given.
PuPrompt(t) ==
    /\ pinuse.th[t].pc = "prompt"
    /\ pinuse' = Moved([pinuse EXCEPT
                           !.clash = @ \/ HeldByOther(pinuse, t,
                                                      pinuse.th[t].holds)],
                       t,
                       IF pinuse.th[t].env.ui = "ok" THEN "login_call"
                       ELSE "get_pin_failed",
                       NullPtr)
    /\ PinUseUnchanged

\* ctx_get_pin has returned 0: ctx_login destroys the PIN and gives up.
PuGetPinFailed(t) ==
    /\ pinuse.th[t].pc = "get_pin_failed"
    /\ pinuse' = Moved(DestroyPinBuffer(pinuse, t), t, "leave", NullPtr)
    /\ PinUseUnchanged

\* PKCS11_login(slot, 0, ctx->pin) is called: the token layer reads the
\* buffer until it returns.
PuLoginCall(t) ==
    /\ pinuse.th[t].pc = "login_call"
    /\ pinuse' = Moved(pinuse, t, "login_ret", pinuse.pin)
    /\ PinUseUnchanged

\* PKCS11_login has returned; a failed login destroys the PIN.
PuLoginRet(t) ==
    /\ pinuse.th[t].pc = "login_ret"
    /\ pinuse' = Moved(IF pinuse.th[t].env.loginOk THEN pinuse
                       ELSE DestroyPinBuffer(pinuse, t),
                       t, "leave", NullPtr)
    /\ PinUseUnchanged

\* The lookup or login is over: the thread leaves the section.
PuLeave(t) ==
    /\ pinuse.th[t].pc = "leave"
    /\ pinuse' = [Moved(pinuse, t, "idle", NullPtr)
                     EXCEPT !.owner = IF @ = t THEN NoThread ELSE @,
                            !.th[t].env = NoPinOp]
    /\ PinUseUnchanged

PinStep(t) ==
    \/ PuRequest(t)
    \/ PuEnter(t)
    \/ PuSetDestroy(t)
    \/ PuSetCopy(t)
    \/ PuLoginStart(t)
    \/ PuGetPin(t)
    \/ PuPrompt(t)
    \/ PuGetPinFailed(t)
    \/ PuLoginCall(t)
    \/ PuLoginRet(t)
    \/ PuLeave(t)

-----------------------------------------------------------------------------
(* Specifications                                                          *)

\* No lookup is in progress and none will be: the state of Part II while
\* Part I runs.
\* No function of Part III is being called.
Unused == [phase |-> "unused"]

NoLaterCalls ==
    /\ search = Unused
    /\ parse = Unused
    /\ mech = Unused
    /\ pinuse = Unused

NoCalls ==
    /\ objsel = Unused
    /\ slotsel = Unused
    /\ pinmem = Unused
    /\ NoLaterCalls

NoLookups ==
    /\ slot_list = [i \in 1..NumSlots |-> [token |-> NoToken]]
    /\ logged_in = {}
    /\ force_login = FALSE
    /\ pin = NoPin
    /\ pin_length = 0
    /\ forced_pin = FALSE
    /\ lk = IdleLookup(MaxLookups)

InitCrypto ==
    /\ rwlock = NoThread
    /\ sign_initialized = FALSE
    /\ decrypt_initialized = FALSE
    /\ pc = [t \in Threads |-> "idle"]
    /\ call = [t \in Threads |-> IdleCall]
    /\ span = [t \in Threads |-> FALSE]
    /\ NoLookups
    /\ NoCalls

ThreadStep(t) ==
    \/ SignEntry(t)
    \/ DecryptEntry(t)
    \/ WriteLock(t)
    \/ MechanismInit(t)
    \/ Authenticate(t)
    \/ Primitive(t)
    \/ SetInitialized(t)
    \/ Unlock(t)
    \/ Return(t)

NextCrypto == \E t \in Threads : ThreadStep(t)

\* Every thread of the context calls the wrappers.
SpecCrypto == InitCrypto /\ [][NextCrypto]_vars

\* One thread alone calls the wrappers, one call after the other.
NextCryptoSeq == ThreadStep("t1")

SpecCryptoSeq == InitCrypto /\ [][NextCryptoSeq]_vars

\* The engine context after initialization: slots enumerated, nobody
\* logged in, no PIN, force_login as configured.
InitLookup ==
    /\ rwlock = NoThread
    /\ sign_initialized = FALSE
    /\ decrypt_initialized = FALSE
    /\ pc = [t \in Threads |-> "idle"]
    /\ call = [t \in Threads |-> IdleCall]
    /\ span = [t \in Threads |-> FALSE]
    /\ slot_list \in SlotLists
    /\ logged_in = {}
    /\ force_login \in BOOLEAN
    /\ pin = NoPin
    /\ pin_length = 0
    /\ forced_pin = FALSE
    /\ lk = IdleLookup(0)
    /\ NoCalls

NextLookup == NoLoginPass \/ LoginPass \/ LookupReturn

SpecLookup == InitLookup /\ [][NextLookup]_vars

\* The PIN memory of a fresh context.
InitPinMem ==
    /\ rwlock = NoThread
    /\ sign_initialized = FALSE
    /\ decrypt_initialized = FALSE
    /\ pc = [t \in Threads |-> "idle"]
    /\ call = [t \in Threads |-> IdleCall]
    /\ span = [t \in Threads |-> FALSE]
    /\ NoLookups
    /\ objsel = Unused
    /\ slotsel = Unused
    /\ pinmem = IdlePinMem
    /\ NoLaterCalls

NextPinMem == PmUriPin \/ PmLogin \/ PmDestroy

SpecPinMem == InitPinMem /\ [][NextPinMem]_vars

\* Everything but objsel at rest.
OnlyObjSel ==
    /\ rwlock = NoThread
    /\ sign_initialized = FALSE
    /\ decrypt_initialized = FALSE
    /\ pc = [t \in Threads |-> "idle"]
    /\ call = [t \in Threads |-> IdleCall]
    /\ span = [t \in Threads |-> FALSE]
    /\ NoLookups
    /\ slotsel = Unused
    /\ pinmem = Unused
    /\ NoLaterCalls

InitMatchKey == OnlyObjSel /\ objsel \in KeyCalls

NextMatchKey == MatchKeyCall

SpecMatchKey == InitMatchKey /\ [][NextMatchKey]_vars

InitMatchCert == OnlyObjSel /\ objsel \in CertCalls

NextMatchCert == MatchCertCall

SpecMatchCert == InitMatchCert /\ [][NextMatchCert]_vars

InitMatchSlots ==
    /\ rwlock = NoThread
    /\ sign_initialized = FALSE
    /\ decrypt_initialized = FALSE
    /\ pc = [t \in Threads |-> "idle"]
    /\ call = [t \in Threads |-> IdleCall]
    /\ span = [t \in Threads |-> FALSE]
    /\ NoLookups
    /\ objsel = Unused
    /\ pinmem = Unused
    /\ NoLaterCalls
    /\ slotsel \in SlotCalls

NextMatchSlots == MatchSlots \/ MatchCrash

SpecMatchSlots == InitMatchSlots /\ [][NextMatchSlots]_vars

\* Everything but the variables of Parts III d and IV at rest.
NoEarlierCalls ==
    /\ rwlock = NoThread
    /\ sign_initialized = FALSE
    /\ decrypt_initialized = FALSE
    /\ pc = [t \in Threads |-> "idle"]
    /\ call = [t \in Threads |-> IdleCall]
    /\ span = [t \in Threads |-> FALSE]
    /\ NoLookups
    /\ objsel = Unused
    /\ slotsel = Unused
    /\ pinmem = Unused

InitSearch ==
    /\ NoEarlierCalls
    /\ search \in SearchCalls
    /\ parse = Unused
    /\ mech = Unused
    /\ pinuse = Unused

NextSearch == SearchCall \/ SearchCrash

SpecSearch == InitSearch /\ [][NextSearch]_vars

InitParamsPss ==
    /\ NoEarlierCalls
    /\ search = Unused
    /\ parse = Unused
    /\ mech \in PssCalls
    /\ pinuse = Unused

NextParamsPss == PssCall

SpecParamsPss == InitParamsPss /\ [][NextParamsPss]_vars

InitMech ==
    /\ NoEarlierCalls
    /\ search = Unused
    /\ parse = Unused
    /\ mech = IdleMech(0, NoOperation, NoOperation)
    /\ pinuse = Unused

NextMech == MechSign \/ MechDecrypt \/ MechReturn

SpecMech == InitMech /\ [][NextMech]_vars

InitParse ==
    /\ NoEarlierCalls
    /\ search = Unused
    /\ \E n \in 1..MaxPieces :
          \E ps \in [1..n -> Pieces], mallocOk \in BOOLEAN :
             parse = NewParse(Joined(ps), mallocOk)
    /\ mech = Unused
    /\ pinuse = Unused

NextParse == ParseCall

SpecParse == InitParse /\ [][NextParse]_vars

InitHex ==
    /\ NoEarlierCalls
    /\ search = Unused
    /\ \E n \in 0..MaxHexLen :
          \E in \in [1..n -> HexInputChars], outlen \in 0..MaxOutLen :
             parse = NewHexCall(in, outlen)
    /\ mech = Unused
    /\ pinuse = Unused

NextHex == HexCall

SpecHex == InitHex /\ [][NextHex]_vars

InitParseCap ==
    /\ NoEarlierCalls
    /\ search = Unused
    /\ \E n \in 1..MaxPieces :
          \E ps \in [1..n -> Pieces], cap \in 0..MaxOutLen :
             parse = NewCapParse(Joined(ps), cap)
    /\ mech = Unused
    /\ pinuse = Unused

NextParseCap == ParseCapCall

SpecParseCap == InitParseCap /\ [][NextParseCap]_vars

\* The bytes that are encoded, and how one byte is written: as the
\* character it is, or as %XX with digits of either case.
EncodedBytes == {0, 37, 58, 97, 171, 255}
Styles == {"literal", "lower", "upper"}

\* The character with byte value b, if the strings of the model have one.
HasChr(b) == \E c \in AttrChars : Ord(c) = b
Chr(b) == CHOOSE c \in AttrChars : Ord(c) = b

\* One byte percent-encoded.
EncodeByte(b, style) ==
    IF style = "literal" /\ HasChr(b) /\ b # 37 THEN <<Chr(b)>>
    ELSE LET digits == IF style = "upper" THEN HexUpper ELSE HexLower IN
         <<"%", digits[(b \div 16) + 1], digits[(b % 16) + 1]>>

RECURSIVE Encode(_, _)
\* The bytes bs percent-encoded, byte i in style st[i].
Encode(bs, st) ==
    IF bs = <<>> THEN <<>>
    ELSE EncodeByte(bs[1], st[1]) \o Encode(Drop(bs, 1), Drop(st, 1))

InitRoundTrip ==
    /\ NoEarlierCalls
    /\ search = Unused
    /\ \E n \in 0..MaxAttrBytes :
          \E bs \in [1..n -> EncodedBytes], st \in [1..n -> Styles],
             slack \in 0..1 :
             parse = NewAttrCall(Encode(bs, st), n + slack, bs)
    /\ mech = Unused
    /\ pinuse = Unused

NextRoundTrip == AttrCall

SpecRoundTrip == InitRoundTrip /\ [][NextRoundTrip]_vars

InitAttr ==
    /\ NoEarlierCalls
    /\ search = Unused
    /\ \E n \in 0..MaxAttrLen :
          \E attr \in [1..n -> AttrChars], max \in 0..MaxOutLen :
             parse = NewAttrCall(attr, max, <<>>)
    /\ mech = Unused
    /\ pinuse = Unused

NextAttr == AttrCall

SpecAttr == InitAttr /\ [][NextAttr]_vars

MaxAttrs == 3

\* The attributes a URI is made of.
UriAttrs ==
    {KwToken \o <<"a">>,
     KwObject \o <<"a">>,
     KwUriId \o <<"%", "3", "a">>,
     KwPinValue \o <<"1", "2">>,
     KwPinValue \o <<"3">>,
     KwPinSource \o <<"/", "p">>,
     KwPinSource \o <<"/", "n">>,
     KwPinSource \o <<"f", "i", "l", "e", ":", "/", "p">>,
     KwPinSource \o <<"F", "i", "L", "E", ":", "/", "n">>,
     KwPinSource \o <<"/", "m">>,
     KwPinSource \o <<"/", "e">>,
     KwPinSource \o <<"/", "x">>,
     KwPinSource \o <<"|", "/", "p">>,
     KwType \o Private,
     KwType \o Cert,
     KwObjectType \o Public,
     KwType \o <<"x">>,
     KwObjectType \o Cert \o <<"x">>,
     <<"x", "=", "1">>,
     <<"T", "o", "k", "e", "n", "=", "a">>}

RECURSIVE UriOf(_, _)
\* The attributes as joined by the separator sep, after what stands before
\* them.
UriOf(attrs, sep) ==
    IF attrs = <<>> THEN <<>>
    ELSE IF Len(attrs) = 1 THEN attrs[1]
    ELSE attrs[1] \o <<sep>> \o UriOf(Drop(attrs, 1), sep)

InitUri ==
    /\ NoEarlierCalls
    /\ search = Unused
    /\ \E n \in 0..MaxAttrs :
          \E attrs \in [1..n -> UriAttrs], sep \in Separators :
             parse = NewUriCall(UriScheme \o UriOf(attrs, sep), attrs)
    /\ mech = Unused
    /\ pinuse = Unused

NextUri == UriCall

SpecUri == InitUri /\ [][NextUri]_vars

MaxLoadAttrs == 2

\* The attributes and the legacy identifiers that are looked up.
LoadAttrs ==
    {KwToken \o <<"A">>,
     KwToken \o <<"B">>,
     KwPinValue \o PinSpelling("1234"),
     KwPinSource \o <<"|", "/", "p">>,
     KwType \o Private,
     KwType \o <<"x">>,
     <<"x", "=", "1">>}

UpperScheme == <<"P", "K", "C", "S", "1", "1", ":">>

\* Identifiers that do not start with pkcs11: as it is written.
OtherIdents ==
    {<<"a", "B">>, KwId \o <<"a", "B">>, <<"x">>, KwSlot, <<"3", "-">>,
     UpperScheme \o KwPinValue \o PinSpelling("9999"),
     UpperScheme \o <<"x", "=", "1">>}

\* Slot lists with one slot of any kind and the other slots alike: empty,
\* or holding the token B.
LoadSlotLists ==
    {sl \in SlotLists :
        /\ sl[2].token \in TokensB \cup {NoToken}
        /\ \A i \in 2..NumSlots : sl[i] = sl[2]}

InitLoad ==
    /\ rwlock = NoThread
    /\ sign_initialized = FALSE
    /\ decrypt_initialized = FALSE
    /\ pc = [t \in Threads |-> "idle"]
    /\ call = [t \in Threads |-> IdleCall]
    /\ span = [t \in Threads |-> FALSE]
    /\ slot_list \in LoadSlotLists
    /\ logged_in = {}
    /\ force_login \in BOOLEAN
    /\ \E cx \in {Ctx(NoPin, 0, FALSE), Ctx("9999", StrLen("9999"), TRUE)} :
          /\ pin = cx.pin
          /\ pin_length = cx.pin_length
          /\ forced_pin = cx.forced_pin
          /\ \/ \E n \in 0..MaxLoadAttrs :
                   \E attrs \in [1..n -> LoadAttrs] :
                      parse = [phase |-> "ident",
                               ident |-> UriScheme \o UriOf(attrs, ";"),
                               attrs |-> attrs, entry |-> cx]
             \/ \E ident \in OtherIdents :
                   parse = [phase |-> "ident", ident |-> ident,
                            attrs |-> <<>>, entry |-> cx]
    /\ lk = IdleLookup(0)
    /\ objsel = Unused
    /\ slotsel = Unused
    /\ pinmem = Unused
    /\ search = Unused
    /\ mech = Unused
    /\ pinuse = Unused

NextLoad == IdentNoLoginPass \/ IdentLoginPass \/ IdentReturn

SpecLoad == InitLoad /\ [][NextLoad]_vars

InitPinUse ==
    /\ NoEarlierCalls
    /\ search = Unused
    /\ parse = Unused
    /\ mech = Unused
    /\ pinuse = IdlePinUse

NextPinUse == \E t \in Threads : PinStep(t)

SpecPinUse == InitPinUse /\ [][NextPinUse]_vars

-----------------------------------------------------------------------------
(* Claims about the crypto operation interceptor                           *)

LockHeld == rwlock # NoThread

\* The thread t issues C_SignInit / C_DecryptInit or C_Sign / C_Decrypt.
TokenCallBy(t) == pc[t] \in {"init", "prim"} /\ pc'[t] # pc[t]

\* The thread t releases the lock.
ReleaseBy(t) ==
    pc[t] = "unlock" /\ pc'[t] # pc[t] /\ LockHeld /\ rwlock' = NoThread

\* C1: while a thread is between its mechanism init and the primitive call
\* that completes its operation (the gap after a successful size query
\* included), no other thread issues an init or primitive call for the
\* context and no other thread releases the lock.
C1_ExclusiveHold ==
    [][\A t \in Threads :
          (TokenCallBy(t) \/ ReleaseBy(t))
              => \A u \in Threads \ {t} : ~span[u]]_vars

\* C2: when a call on a key of the context has returned, the lock is held
\* if and only if that call succeeded on the token with a NULL output
\* buffer; on every other exit (token error, completed operation, fallback)
\* it is not held.
C2_LockHeldIffSizeQuery ==
    \A t \in Threads :
        (pc[t] = "done" /\ call[t].key # NoKey)
            => (LockHeld <=> (call[t].tryRet = 1 /\ call[t].outNull))

\* C3: once a token call has been issued for a request, a failure reported
\* by the token is final: the wrapper returns failure and the original
\* software implementation is not invoked.
C3_TokenFailureFinal ==
    \A t \in Threads :
        (pc[t] = "done" /\ call[t].issued /\ call[t].rv # CKR_OK)
            => (~call[t].origCalled /\ call[t].ret <= 0)

\* The token path is not applicable to the call c: no token key is attached,
\* or the padding is not PSS for sign, neither OAEP nor PKCS#1 for decrypt.
TokenPathNotApplicable(c) ==
    \/ c.key = NoKey
    \/ (c.op = "sign" /\ c.padding # "PSS")
    \/ (c.op = "decrypt" /\ c.padding \notin {"OAEP", "PKCS1"})

\* C4: when the token path is not applicable the wrapper returns exactly the
\* result of the original implementation, and no token call was issued, the
\* lock was not acquired, no initialized flag was written and *siglen /
\* *outlen was not written.
C4_TransparentFallback ==
    \A t \in Threads :
        (pc[t] = "done" /\ TokenPathNotApplicable(call[t]))
            => /\ call[t].origCalled
               /\ call[t].ret = call[t].origRet
               /\ ~call[t].issued
               /\ ~call[t].acquired
               /\ ~call[t].flagWritten
               /\ ~call[t].lenWritten

\* The thread t takes the authentication step, resp. issues the primitive.
AuthBy(t) == pc[t] = "auth" /\ pc'[t] # "auth"
PrimitiveBy(t) == pc[t] = "prim" /\ pc'[t] # "prim"

\* C24: every authentication step of the sign or decrypt path follows a
\* mechanism init that the same call issued and that succeeded, and comes
\* before the primitive; there is none when the init failed or was
\* skipped, and the primitive is not issued when the authentication
\* failed.
C24_AuthAfterInit ==
    [][\A t \in Threads :
          /\ AuthBy(t) =>
                /\ call[t].acquired
                /\ call[t].issued
                /\ call[t].rv = CKR_OK
                /\ (call'[t].rv # CKR_OK => pc'[t] # "prim")
          /\ PrimitiveBy(t) => call[t].rv = CKR_OK]_vars

-----------------------------------------------------------------------------
(* Claims about lookup and login                                           *)

\* The login pass of the lookup ran to its end.
LoginPassRan == lk.phase = "done" /\ (force_login \/ lk.passes = 2)

\* ctx_login was called in the login pass, for slot lk.target.
LoginCalled == LoginPassRan /\ lk.target # 0

\* ctx_login went past its entry test.
LoginProceeded == LoginCalled /\ lk.why # "skipped"

\* C5: during one lookup, both passes counted, the token login call is
\* issued at most once and for at most one slot, the PIN prompt is shown at
\* most once, and after a failed PIN entry or a failed login the lookup
\* ends with no object instead of trying again.
C5_LoginAtMostOnce ==
    /\ lk.logins <= 1
    /\ lk.prompts <= 1
    /\ (lk.logins = 1 => lk.target # 0)
    /\ (lk.ret = 0 => lk.phase = "done" /\ lk.obj = 0)

C5_Witness ==
    /\ LoginCalled
    /\ lk.passes = 2
    /\ lk.logins = 1
    /\ lk.prompts = 1
    /\ lk.ret = 0

InitMatched ==
    {i \in 1..NumSlots :
        MatchesToken(lk.sel, slot_list[i]) /\ slot_list[i].token.initialized}

UninitMatched ==
    {i \in 1..NumSlots :
        MatchesToken(lk.sel, slot_list[i]) /\ ~slot_list[i].token.initialized}

\* The first uninitialized matched slot whose token shows the object, 0 if
\* none does.
FirstHolding ==
    LET h == {i \in UninitMatched :
                 match_func(slot_list[i].token, i \in logged_in)}
    IN  IF h = {} THEN 0 ELSE CHOOSE i \in h : \A j \in h : i <= j

\* C6: in a login pass with more than one matched slot, a login happens
\* only if exactly one matched token is initialized, and then for that
\* token, which is the only one searched; with two or more initialized
\* matched tokens there is no login call and no prompt, the warning is
\* logged, and only uninitialized matched tokens are searched, the first
\* that holds the object giving the result, which is NULL if none does.
C6_MultipleMatches ==
    (LoginPassRan /\ Cardinality(InitMatched \cup UninitMatched) > 1) =>
        /\ (lk.logins > 0 \/ lk.target # 0) =>
              /\ Cardinality(InitMatched) = 1
              /\ lk.target \in InitMatched
        /\ Cardinality(InitMatched) = 1 =>
              /\ lk.searched \subseteq InitMatched
              /\ lk.obj \in InitMatched \cup {0}
        /\ Cardinality(InitMatched) >= 2 =>
              /\ lk.logins = 0
              /\ lk.prompts = 0
              /\ lk.warned
              /\ lk.searched \subseteq UninitMatched
              /\ lk.obj = FirstHolding

C6_Witness ==
    /\ LoginPassRan
    /\ Cardinality(InitMatched) >= 2
    /\ lk.warned
    /\ lk.obj # 0
    /\ lk.obj \in UninitMatched

\* C7: called for a token that requires login or with login forced,
\* ctx_login returns without a login call exactly when the slot is queried
\* to be logged in and login is not forced; a failed query counts as not
\* logged in, and with force_login set it goes on to the PIN and the login
\* call although the slot is logged in.
C7_SkipOnlyIfNotForced ==
    LoginCalled =>
        (lk.why = "skipped" <=>
            (lk.queryOk /\ lk.wasLoggedIn /\ ~force_login))

\* C8: when login proceeds on a secure-login token and no PIN was
\* explicitly supplied, the cached PIN is destroyed and the login call gets
\* a NULL PIN with no prompt; with an explicitly supplied PIN the login call
\* gets that PIN.
C8_SecureLoginPin ==
    (LoginProceeded /\ slot_list[lk.target].token.secureLogin) =>
        /\ ~lk.entry.forced_pin =>
              /\ lk.logins = 1
              /\ lk.loginPin = NoPin
              /\ lk.prompts = 0
              /\ pin = NoPin
        /\ lk.entry.forced_pin =>
              /\ lk.logins = 1
              /\ lk.loginPin = lk.entry.pin
              /\ lk.loginPin # NoPin
              /\ lk.prompts = 0

C8_Witness ==
    /\ LoginProceeded
    /\ slot_list[lk.target].token.secureLogin
    /\ lk.entry.forced_pin
    /\ lk.logins = 1
    /\ lk.loginPin \in PinValues

\* Login proceeds and needs a PIN: the token has no secure login, or a PIN
\* was explicitly supplied.
PinRequired ==
    /\ LoginProceeded
    /\ ~(slot_list[lk.target].token.secureLogin /\ ~lk.entry.forced_pin)

\* C9: when login proceeds and a PIN is required, a cached PIN is passed
\* to the login call without a prompt, the prompt runs only when no PIN is
\* cached, and after a successful login the PIN used is the PIN cached in
\* the context.
C9_CachedPinUsed ==
    PinRequired =>
        /\ lk.entry.pin # NoPin =>
              /\ lk.prompts = 0
              /\ lk.logins = 1
              /\ lk.loginPin = lk.entry.pin
        /\ lk.prompts > 0 => lk.entry.pin = NoPin
        /\ lk.ret = 1 => (pin = lk.loginPin /\ pin \in PinValues)

\* A second lookup logs in with the PIN typed during the first.
C9_Witness ==
    /\ PinRequired
    /\ lk.n = 1
    /\ lk.uriPin = NoPin
    /\ lk.entry.pin \in PinValues
    /\ ~lk.entry.forced_pin
    /\ lk.prompts = 0
    /\ lk.logins = 1
    /\ lk.ret = 1

\* C10: when ctx_login fails because no PIN was entered or because the
\* token rejected the login, the context holds no PIN when it returns:
\* pin absent, pin_length 0, forced_pin cleared.
C10_PinGoneAfterFailure ==
    (LoginCalled /\ lk.ret = 0 /\ lk.why \in {"nopin", "rejected"}) =>
        /\ pin = NoPin
        /\ pin_length = 0
        /\ ~forced_pin

\* The slots whose token has the label the identifier names.
NamedSlots == {i \in 1..NumSlots : MatchesToken(lk.sel, slot_list[i])}

\* The case of C13: a first lookup, in a fresh context, of a private key by
\* an identifier with token=T and pin-value=P, T being the label of one
\* token, which requires login and holds the key, and P being accepted.
EndToEndCase ==
    /\ lk.phase = "done"
    /\ lk.n = 0
    /\ lk.sel \in Labels
    /\ lk.uriPin \in PinValues
    /\ \E i \in 1..NumSlots :
          /\ NamedSlots = {i}
          /\ slot_list[i].token.loginRequired
          /\ slot_list[i].token.object = "private"
    /\ lk.ret = 1

\* C13: in that case the lookup returns the key of the named token after
\* one login with P, and the PIN is in no buffer of the lookup afterwards.
C13_EndToEnd ==
    EndToEndCase =>
        /\ lk.obj \in NamedSlots
        /\ lk.logins = 1
        /\ lk.target = lk.obj
        /\ lk.loginPin = lk.uriPin
        /\ lk.prompts = 0
        /\ lk.scratch = NoPin

\* C14: without force_login the lookup starts with the pass without login;
\* if that pass finds the object the lookup ends there with no login call
\* and no prompt, and the pass with login runs only after it returned
\* nothing. With force_login the lookup is the pass with login alone.
C14_NoLoginPassFirst ==
    /\ lk.phase = "pass0" =>
          /\ ~force_login
          /\ lk.passes = 1
          /\ lk.obj = 0
          /\ lk.logins = 0 /\ lk.prompts = 0 /\ lk.target = 0
    /\ (lk.phase = "done" /\ ~force_login /\ lk.passes = 1) =>
          /\ lk.obj # 0
          /\ lk.logins = 0 /\ lk.prompts = 0 /\ lk.target = 0
    /\ (lk.phase = "done" /\ ~force_login) => lk.passes \in {1, 2}
    /\ (lk.phase = "done" /\ force_login) => lk.passes = 1
    /\ (lk.logins > 0 \/ lk.target # 0) => (force_login \/ lk.passes = 2)

\* A lookup that ended in the pass without login, on a token that requires
\* login.
C14_Witness ==
    /\ lk.phase = "done"
    /\ ~force_login
    /\ lk.passes = 1
    /\ lk.obj # 0
    /\ slot_list[lk.obj].token.loginRequired

-----------------------------------------------------------------------------
(* Claims about PIN memory                                                 *)

\* C11: a buffer of ctx->pin is all-zero when it is freed, on every path
\* that frees or replaces it (destroy, re-prompt, secure-login reset,
\* prompt failure, login failure, a new explicit PIN), and after a destroy
\* the context holds no PIN.
C11_PinZeroedBeforeFree ==
    pinmem.phase = "ready" =>
        /\ \A b \in pinmem.m.freed : AllZero(b)
        /\ pinmem.last = "destroy" => pinmem.m.pin = NullBuf

\* A buffer that held a PIN has been freed.
C11_Witness ==
    /\ pinmem.phase = "ready"
    /\ pinmem.m.wiped > 0
    /\ pinmem.m.freed # {}
    /\ pinmem.m.pin = NullBuf

\* C12: when a lookup pass returns, neither its scratch buffer tmp_pin nor
\* the buffer read_from_file read the file into holds PIN bytes.
C12_ScratchCleansed ==
    pinmem.phase = "ready" =>
        (~HoldsPin(pinmem.scratch) /\ ~HoldsPin(pinmem.txt))

-----------------------------------------------------------------------------
(* Claims about the selection of keys and certificates                     *)

\* The entries of the enumeration that match what the identifier gives:
\* the id if one is given and the label if one is given.
Matching(entries, obj_id, obj_label) ==
    {i \in 1..Len(entries) :
        /\ obj_id # <<>> => entries[i].id = obj_id
        /\ obj_label # NoLabel => entries[i].label = obj_label}

Last(S) == IF S = {} THEN 0 ELSE CHOOSE i \in S : \A j \in S : j <= i

\* C15: match_key returns nothing for an empty enumeration, the first key
\* when neither id nor label is given, and otherwise the last key in
\* enumeration order that matches the id and the label given, nothing if
\* there is none.
C15_MatchKey ==
    objsel.phase = "returned" =>
        IF Len(objsel.keys) = 0
        THEN objsel.out = 0
        ELSE IF objsel.obj_id = <<>> /\ objsel.obj_label = NoLabel
        THEN objsel.out = 1
        ELSE objsel.out =
                Last(Matching(objsel.keys, objsel.obj_id, objsel.obj_label))

\* Id and label are given, two keys match both, a key between them matches
\* only one, and the last is returned.
C15_Witness ==
    /\ objsel.phase = "returned"
    /\ objsel.obj_id # <<>>
    /\ objsel.obj_label # NoLabel
    /\ Len(objsel.keys) = 3
    /\ Matching(objsel.keys, objsel.obj_id, objsel.obj_label) = {1, 3}
    /\ objsel.keys[2].id = objsel.obj_id
    /\ objsel.out = 3

\* match_cert returned, an id or a label having been given.
CertSelected ==
    /\ objsel.phase = "returned"
    /\ (objsel.obj_id # <<>> \/ objsel.obj_label # NoLabel)

MatchingCerts == Matching(objsel.certs, objsel.obj_id, objsel.obj_label)

\* The matching certificates that have a not-after time.
Dated ==
    {i \in MatchingCerts :
        /\ objsel.certs[i].x509 # NoX509
        /\ objsel.certs[i].x509.notAfter # BadTime}

\* C16: with an id or label given, the certificate returned is, of the
\* matching certificates, one whose not-after time is the latest: none
\* that expires earlier than another matching one is returned, whatever
\* the order of the enumeration.
C16_LatestExpiry ==
    (CertSelected /\ Dated # {}) =>
        /\ objsel.out \in Dated
        /\ \A i \in Dated :
              objsel.certs[i].x509.notAfter
                 <= objsel.certs[objsel.out].x509.notAfter

\* The certificate match_cert returns for the enumeration taken in the
\* order perm, 0 for none.
ContentUnder(perm) ==
    LET certs == [i \in 1..Len(objsel.certs) |-> objsel.certs[perm[i]]]
        out == match_cert(certs, objsel.obj_id, objsel.obj_label)
    IN  IF out = 0 THEN 0 ELSE certs[out].x509

C18_FirstWithId ==
    (/\ objsel.phase = "returned"
     /\ objsel.obj_id = <<>> /\ objsel.obj_label = NoLabel
     /\ Len(objsel.certs) > 0) =>
        LET withId == {i \in 1..Len(objsel.certs) :
                          Len(objsel.certs[i].id) > 0}
        IN  objsel.out =
               IF withId = {} THEN 1
               ELSE CHOOSE i \in withId : \A j \in withId : i <= j

-----------------------------------------------------------------------------
(* Claims about the matching of slots                                      *)

Range(seq) == {seq[i] : i \in 1..Len(seq)}

\* C19: a slot is in matched_slots if and only if it holds a token and
\* either its id is the slot number given or a token filter is given whose
\* non-null fields all equal the attributes of the token; a slot without a
\* token is never in it, and no slot is in it twice.
C19_MatchedSlots ==
    slotsel.phase = "matched" =>
        LET inp == slotsel.inp
            f == inp.match_tok
            In(i) ==
                /\ slotsel.slots[i].token # NoToken
                /\ \/ SlotIdOf(i) = inp.slot_nr
                   \/ /\ f # NoFilter
                      /\ LET t == slotsel.slots[i].token IN
                         /\ f.label # Null => f.label = t.label
                         /\ f.manufacturer # Null =>
                               f.manufacturer = t.manufacturer
                         /\ f.serialnr # Null => f.serialnr = t.serialnr
                         /\ f.model # Null => f.model = t.model
        IN  /\ \A i \in 1..SlotCount : i \in Range(slotsel.matched) <=> In(i)
            /\ Cardinality(Range(slotsel.matched)) = Len(slotsel.matched)

\* A slot number is given: of the slot that has it and an empty slot, only
\* the first is matched.
C19_Witness ==
    /\ slotsel.phase = "matched"
    /\ slotsel.inp.slot_nr = SlotIdOf(2)
    /\ slotsel.slots[1].token = NoToken
    /\ slotsel.matched = <<2>>

\* C20: when no slot matched, the pass leaves through cleanup, before any
\* login or search, if a token filter was given, and likewise if a slot
\* number was given; only with neither does it take the default token of
\* PKCS11_find_token as the one matched slot, provided that slot has a
\* token, and fails with "No tokens found" otherwise.
C20_NoSlotMatched ==
    (slotsel.phase = "matched" /\ slotsel.matched = <<>>) =>
        LET inp == slotsel.inp
            d == slotsel.deflt
        IN  IF inp.match_tok # NoFilter \/ inp.slot_nr # NoSlotNr
            THEN /\ slotsel.after.go = "cleanup"
                 /\ slotsel.after.slots = <<>>
                 /\ slotsel.after.err # "No tokens found"
            ELSE IF d # 0 /\ slotsel.slots[d].token # NoToken
            THEN /\ slotsel.after.go = "search"
                 /\ slotsel.after.slots = <<d>>
            ELSE /\ slotsel.after.go = "cleanup"
                 /\ slotsel.after.slots = <<>>
                 /\ slotsel.after.err = "No tokens found"

\* No identifier, and the default token is used.
C20_Witness ==
    /\ slotsel.phase = "matched"
    /\ slotsel.inp.match_tok = NoFilter
    /\ slotsel.inp.slot_nr = NoSlotNr
    /\ slotsel.deflt = 2
    /\ slotsel.after.go = "search"
    /\ slotsel.after.slots = <<2>>


\* C38: the matching loop reads the attributes of a token only for slots
\* that hold one: once the loop has run, every slot whose token it read
\* holds a token.
C38_TokenReadOnlyIfPresent ==
    slotsel.phase # "call" =>
        \A i \in TokenReads(slotsel.slots) : HasToken(slotsel.slots[i])

-----------------------------------------------------------------------------
(* Claims about the search of the matched slots                            *)

\* The key a pass returned.
Returned == search.slots[search.obj.slot].token.enum.keys[search.obj.key]

\* C21: an object a pass returns has the id asked for, if one is, and the
\* label asked for, if one is, and is on a slot that has the slot number
\* asked for or whose token the filter admits; when there is no such
\* object the pass returns nothing.
C21_ObjectSatisfiesIdentifier ==
    (search.phase = "returned" /\ search.obj # NoObject) =>
        /\ search.obj.slot \in 1..SlotCount
        /\ search.slots[search.obj.slot].token # NoToken
        /\ search.obj.key
              \in 1..Len(search.slots[search.obj.slot].token.enum.keys)
        /\ search.obj_id # <<>> => Returned.id = search.obj_id
        /\ search.obj_label # NoLabel => Returned.label = search.obj_label
        /\ search.inp.slot_nr # NoSlotNr =>
              SlotIdOf(search.obj.slot) = search.inp.slot_nr
        /\ (search.inp.match_tok # NoFilter
              /\ search.inp.match_tok.label # Null) =>
              search.slots[search.obj.slot].token.label
                 = search.inp.match_tok.label

\* slot_1-id_01: the token in the slot with id 1 holds a key with another
\* id and then the key with id 01, which is returned.
C21_Witness ==
    /\ search.phase = "returned"
    /\ search.inp.slot_nr = 1
    /\ search.obj_id = <<1>>
    /\ search.obj_label = NoLabel
    /\ search.slots[1].token # NoToken
    /\ search.obj = Object(2, 2)
    /\ search.slots[2].token.enum.keys[1].id = <<2>>

\* The matched slots whose token gives the object in a search.
Giving ==
    {i \in Range(search.matched) :
        LET e == search.slots[i].token.enum IN
        /\ e.ok
        /\ Len(e.keys) > 0
        /\ (search.obj_id # <<>> \/ search.obj_label # NoLabel) =>
              Matching(e.keys, search.obj_id, search.obj_label) # {}}

\* The slot the pass with login settles on, 0 if none: the only matched
\* slot, or the only one of them with an initialized token.
Chosen ==
    LET init == {i \in Range(search.matched) :
                    search.slots[i].token.initialized}
    IN  IF Len(search.matched) = 1 THEN search.matched[1]
        ELSE IF Cardinality(init) = 1 THEN CHOOSE i \in init : TRUE
        ELSE 0

\* C22: a failed enumeration on a matched slot counts as no candidates
\* there. The pass without login goes on with the slots that remain, and
\* returns an object from the first matched slot that gives one; the pass
\* with login returns nothing when the enumeration fails on the slot it
\* settled on.
C22_EnumerationFailure ==
    search.phase = "returned" =>
        /\ (~search.login /\ Giving # {}) =>
              search.obj.slot = CHOOSE i \in Giving : \A j \in Giving : i <= j
        /\ (~search.login /\ Giving = {}) => search.obj = NoObject
        /\ (search.login /\ Chosen # 0
              /\ ~search.slots[Chosen].token.enum.ok) =>
              search.obj = NoObject

\* The pass without login: the enumeration fails on the first matched slot
\* and the object comes from the second.
C22_Witness ==
    /\ search.phase = "returned"
    /\ ~search.login
    /\ search.matched = <<1, 2>>
    /\ ~search.slots[1].token.enum.ok
    /\ search.obj.slot = 2

-----------------------------------------------------------------------------
(* Claims about the translation of parameters                              *)

\* The getters answer and the digests have a token mapping.
Translatable ==
    /\ mech.cx.sigOk /\ mech.cx.mgfOk /\ mech.cx.saltOk
    /\ mech.cx.sig_md \in MappedDigests
    /\ mech.cx.mgf1_md \in MappedDigests

\* C23: salt length -1 becomes the size of the signature digest; -2
\* becomes the size of the key in bytes less the size of the digest less
\* 2, and one less when the bits of the key less one are a multiple of 8,
\* the translation failing when that is negative; a salt length of 0 or
\* more is passed on as it is.
C23_PssSaltLength ==
    (mech.phase = "returned" /\ Translatable) =>
        LET cx == mech.cx
            bytes == (cx.pkey + 7) \div 8
            most == bytes - EVP_MD_size(cx.sig_md) - 2
                    - (IF (cx.pkey - 1) % 8 = 0 THEN 1 ELSE 0)
        IN  /\ cx.salt_len = -1 =>
                  /\ mech.ret = 0
                  /\ mech.pss.sLen = [wraps |-> 0,
                                      low |-> EVP_MD_size(cx.sig_md)]
            /\ (cx.salt_len = -2 /\ cx.pkey # NoPkey) =>
                  IF most < 0
                  THEN mech.ret = -1
                  ELSE /\ mech.ret = 0
                       /\ mech.pss.sLen = [wraps |-> 0, low |-> most]
            /\ cx.salt_len >= 0 =>
                  /\ mech.ret = 0
                  /\ mech.pss.sLen = [wraps |-> 0, low |-> cx.salt_len]

\* Salt length -2 for a key of 1025 bits and sha256: 129 - 32 - 2 - 1.
C23_Witness ==
    /\ mech.phase = "returned"
    /\ Translatable
    /\ mech.cx.salt_len = -2
    /\ mech.cx.pkey = 1025
    /\ mech.cx.sig_md = "sha256"
    /\ mech.ret = 0
    /\ mech.pss.sLen = [wraps |-> 0, low |-> 94]

\* The request the wrapper has served is for a key on the token.
TokenRequest(op) ==
    /\ mech.phase = "returned"
    /\ mech.rq.op = op
    /\ mech.rq.key # NoKey

\* The salt length a request asks for.
RequestedSalt ==
    IF mech.rq.cx.salt_len = -1 THEN EVP_MD_size(mech.rq.cx.sig_md)
    ELSE mech.rq.cx.salt_len

\* C25: a sign request on a token key with PSS padding, a signature digest
\* and MGF1 digest the token knows and an input as long as the digest,
\* every token call succeeding, is served by the token: the sign primitive
\* runs under the PSS mechanism with the hash, MGF and salt length of the
\* request, the wrapper returns 1 with the length the token reported, and
\* the original implementation is not called.
C25_PssSignOnToken ==
    (/\ TokenRequest("sign")
     /\ mech.rq.padding = "PSS"
     /\ mech.rq.cx.sig_md \in MappedDigests
     /\ mech.rq.cx.mgf1_md \in MappedDigests
     /\ mech.rq.tbslen = EVP_MD_size(mech.rq.cx.sig_md)
     /\ mech.out.tokenOk) =>
        /\ mech.ret = 1
        /\ ~mech.origCalled
        /\ mech.len = TokenLen
        /\ mech.out.primOp.key = mech.rq.key
        /\ mech.out.primOp.mechanism.mechanism = "CKM_RSA_PKCS_PSS"
        /\ mech.out.primOp.mechanism.pParameter.hashAlg
              = pkcs11_md2ckm(mech.rq.cx.sig_md)
        /\ mech.out.primOp.mechanism.pParameter.mgf
              = pkcs11_md2ckg(mech.rq.cx.mgf1_md)
        /\ mech.out.primOp.mechanism.pParameter.sLen
              = [wraps |-> 0, low |-> RequestedSalt]

\* C26: the mechanism handed to C_DecryptInit is the OAEP mechanism with
\* the hash and MGF of the request and the empty label when the padding is
\* OAEP, and the raw PKCS#1 mechanism without parameters when the padding
\* is PKCS#1, every field of it assigned.
C26_DecryptMechanism ==
    (TokenRequest("decrypt") /\ mech.out.initMech # NoMechanism) =>
        /\ mech.rq.padding = "OAEP" =>
              mech.out.initMech
                 = [mechanism |-> "CKM_RSA_PKCS_OAEP",
                    pParameter |->
                       [hashAlg |-> pkcs11_md2ckm(mech.rq.cx.sig_md),
                        mgf |-> pkcs11_md2ckg(mech.rq.cx.mgf1_md),
                        sLen |-> [wraps |-> 0, low |-> 0], set |-> TRUE],
                    ulParameterLen |-> "sizeof oaep_params"]
        /\ mech.rq.padding = "PKCS1" =>
              mech.out.initMech
                 = [mechanism |-> "CKM_RSA_PKCS", pParameter |-> NullParams,
                    ulParameterLen |-> "0"]
        /\ mech.rq.padding \in {"OAEP", "PKCS1"}

\* C27: when the digest of the operation or the MGF1 digest has no token
\* mapping, a PSS sign or OAEP decrypt request on a token key issues no
\* mechanism init, does not take the lock, and does not succeed.
C27_UnmappedDigestFails ==
    (/\ \/ TokenRequest("sign") /\ mech.rq.padding = "PSS"
        \/ TokenRequest("decrypt") /\ mech.rq.padding = "OAEP"
     /\ \/ mech.rq.cx.sig_md \notin MappedDigests
        \/ mech.rq.cx.mgf1_md \notin MappedDigests) =>
        /\ mech.out.initMech = NoMechanism
        /\ ~mech.out.locks
        /\ mech.ret # 1

\* C37: the primitive of a sign or decrypt request on a token key runs
\* under an operation that was initialised for the key of the request.
C37_PrimitiveForOwnKey ==
    ((TokenRequest("sign") \/ TokenRequest("decrypt"))
        /\ mech.out.primOp # NoOperation) =>
        mech.out.primOp.key = mech.rq.key

\* C39: for every salt length of the key context, the translation fails
\* or leaves a salt length that was not negative when it was stored in
\* the unsigned field of the token parameters.
C39_SaltLengthNotNegative ==
    mech.phase = "returned" =>
        \/ mech.ret = -1
        \/ mech.pss.sLen.wraps = 0 /\ mech.pss.sLen.low >= 0

\* A thread is inside a lookup or login: past the entry of the section and
\* not yet out of it.
InPinSection(t) == pinuse.th[t].pc \notin {"idle", "waiting"}

-----------------------------------------------------------------------------
(* Claims about the legacy identifier parser                               *)

IsHex(h) == \A i \in 1..Len(h) : h[i] \in HEXDIGITS
IsDecimal(d) == Len(d) > 0 /\ \A i \in 1..Len(d) : d[i] \in DIGITS

\* The bytes a hex string stands for, two digits per byte.
TwoDigitBytes(h) ==
    [k \in 1..(Len(h) \div 2) |->
        16 * HexVal(h[2 * k - 1]) + HexVal(h[2 * k])]

\* A reading of an identifier: the slot, the hex id and the label.
Reading(slot, hex, label) == [slot |-> slot, hex |-> hex, label |-> label]

\* What may follow the number of slot_<decimal>.
SlotTail(n, tail) ==
    IF tail = <<>> THEN {Reading(n, <<>>, NullLabel)}
    ELSE IF StartsWith(tail, <<"-">> \o KwId) /\ IsHex(Drop(tail, 4))
    THEN {Reading(n, Drop(tail, 4), NullLabel)}
    ELSE IF StartsWith(tail, <<"-">> \o KwLabel)
    THEN {Reading(n, <<>>, LabelOf(Drop(tail, 7)))}
    ELSE {}

\* The readings of s under the forms that name a slot or carry a keyword:
\* <decimal-slot>:<hex-id>, id_<hex-id>, label_<label>, and slot_<decimal>
\* with its optional -id_<hex-id> or -label_<label>.
KeywordReadings(s) ==
    {Reading(DecVal(SubSeq(s, 1, k - 1)), Drop(s, k), NullLabel) :
        k \in {k \in 1..Len(s) : /\ s[k] = ":"
                                 /\ IsDecimal(SubSeq(s, 1, k - 1))
                                 /\ IsHex(Drop(s, k))}}
    \cup (IF StartsWith(s, KwId) /\ IsHex(Drop(s, 3))
          THEN {Reading(-1, Drop(s, 3), NullLabel)} ELSE {})
    \cup (IF StartsWith(s, KwLabel)
          THEN {Reading(-1, <<>>, LabelOf(Drop(s, 6)))} ELSE {})
    \cup (IF StartsWith(s, KwSlot)
          THEN UNION {SlotTail(DecVal(SubSeq(s, 6, 5 + k)), Drop(s, 5 + k)) :
                         k \in {k \in 1..(Len(s) - 5) :
                                   IsDecimal(SubSeq(s, 6, 5 + k))}}
          ELSE {})

\* The readings of s under the legacy grammar, pure hex first.
Readings(s) ==
    IF IsHex(s) THEN {Reading(-1, s, NullLabel)} ELSE KeywordReadings(s)

\* The parser has returned what the reading r stands for.
Yields(r) ==
    /\ parse.out.ret = 1
    /\ parse.out.slot = r.slot
    /\ parse.out.id = TwoDigitBytes(r.hex)
    /\ 2 * Len(parse.out.id) = Len(r.hex)
    /\ parse.out.id_len = Len(parse.out.id)
    /\ parse.out.label = r.label

\* C29: an identifier of hex digits only is accepted with slot -1 and the
\* id its digits stand for, two digits per byte; an identifier with a
\* character that is no hex digit and that fits none of the other forms is
\* rejected.
C29_PureHexIdentifier ==
    parse.phase = "returned" =>
        /\ IsHex(parse.slot_id) =>
              Yields(Reading(-1, parse.slot_id, NullLabel))
        /\ (~IsHex(parse.slot_id) /\ KeywordReadings(parse.slot_id) = {}) =>
              parse.out.ret = 0

\* C30: with the copy of a label succeeding, the parser accepts an
\* identifier exactly when it has a reading under the legacy grammar, and
\* then returns the slot number, id bytes and label of that reading; every
\* other identifier is rejected.
C30_LegacyShapes ==
    (parse.phase = "returned" /\ parse.mallocOk) =>
        /\ parse.out.ret = 1 <=> Readings(parse.slot_id) # {}
        /\ parse.out.ret = 1 =>
              \E r \in Readings(parse.slot_id) : Yields(r)

(***************************************************************************)
(* Claims about hex decoding                                               *)
(***************************************************************************)

\* s is made of pairs of hex digits, each pair optionally followed by one
\* ':'.
RECURSIVE InPairs(_)
InPairs(s) ==
    \/ s = <<>>
    \/ /\ Len(s) >= 2
       /\ s[1] \in HEXDIGITS
       /\ s[2] \in HEXDIGITS
       /\ InPairs(Drop(s, IF CharAt(s, 2) = ":" THEN 3 ELSE 2))

\* The bytes the pairs of s stand for.
RECURSIVE PairBytes(_)
PairBytes(s) ==
    IF s = <<>> THEN <<>>
    ELSE <<16 * HexVal(s[1]) + HexVal(s[2])>>
            \o PairBytes(Drop(s, IF CharAt(s, 2) = ":" THEN 3 ELSE 2))

C36_IdTooLong ==
    parse.phase = "capreturned" =>
        /\ Len(parse.out.id) <= parse.cap
        /\ \A r \in Readings(parse.slot_id) :
              r.hex # <<>> =>
                 /\ (Len(r.hex) + 1) \div 2 > parse.cap =>
                       parse.out = Failed(Parsed(0, -1, <<>>, parse.cap,
                                                 NullLabel), TooLong)
                 /\ parse.out.ret = 1 =>
                       /\ parse.out.id_len = Len(parse.out.id)
                       /\ 2 * parse.out.id_len >= Len(r.hex)

\* The parser has rejected an identifier that names a slot and carries an
\* id that does not fit a buffer of at least one byte.
C36_Witness ==
    /\ parse.phase = "capreturned"
    /\ \E r \in Readings(parse.slot_id) :
          r.slot # -1 /\ Len(r.hex) > 2 * parse.cap
    /\ parse.cap >= 1
    /\ parse.out.ret = 0
    /\ parse.out.log = TooLong

(***************************************************************************)
(* Claims about the pkcs11: URI parser                                     *)
(***************************************************************************)

\* C31: decoding the percent-encoding of a byte sequence into a buffer of
\* at least its length succeeds and yields the sequence, the output length
\* being its length.
C31_RoundTrip ==
    parse.phase = "attrreturned" =>
        /\ parse.out.ret = 1
        /\ parse.out.field = parse.bytes
        /\ parse.out.field_len = Len(parse.bytes)

\* A sequence with a zero byte, a '%' byte and a byte written as itself has
\* been decoded into a buffer of exactly its length.
C31_Witness ==
    /\ parse.phase = "attrreturned"
    /\ parse.bytes = <<0, 37, 97>>
    /\ parse.attr = <<"%", "0", "0", "%", "2", "5", "a">>
    /\ parse.max = 3
    /\ parse.out.field = <<0, 37, 97>>

RECURSIVE PercentUnits(_)
\* attr read as literal characters and %XX triples: [ok, bytes], ok being
\* false when a '%' is not followed by two hex digits.
PercentUnits(attr) ==
    IF attr = <<>> THEN [ok |-> TRUE, bytes |-> <<>>]
    ELSE IF attr[1] # "%"
    THEN LET u == PercentUnits(Drop(attr, 1)) IN
         [ok |-> u.ok, bytes |-> <<Ord(attr[1])>> \o u.bytes]
    ELSE IF Len(attr) < 3 \/ attr[2] \notin HEXDIGITS
                          \/ attr[3] \notin HEXDIGITS
    THEN [ok |-> FALSE, bytes |-> <<>>]
    ELSE LET u == PercentUnits(Drop(attr, 3)) IN
         [ok |-> u.ok,
          bytes |-> <<16 * HexVal(attr[2]) + HexVal(attr[3])>> \o u.bytes]

\* C32: percent decoding succeeds exactly when the input is made of literal
\* characters and %XX triples and has no more of them than the capacity,
\* and then yields one byte for each; in every other case (input left at
\* capacity, a '%' followed by fewer than two characters or by characters
\* that are no hex digits) it fails and leaves the caller's output length
\* as it was.
C32_PercentDecode ==
    parse.phase = "attrreturned" =>
        LET u == PercentUnits(parse.attr) IN
        IF u.ok /\ Len(u.bytes) <= parse.max
        THEN /\ parse.out.ret = 1
             /\ parse.out.field = u.bytes
             /\ parse.out.field_len = Len(u.bytes)
        ELSE /\ parse.out.ret = 0
             /\ parse.out.field_len = parse.max

\* The attribute gives a PIN, has a key the parser knows, is a type.
GivesPin(attr) == StartsWith(attr, KwPinValue) \/ StartsWith(attr, KwPinSource)
IsType(attr) == StartsWith(attr, KwType) \/ StartsWith(attr, KwObjectType)
KnownKey(attr) ==
    \E kw \in {KwModel, KwManufacturer, KwToken, KwSerial, KwObject, KwUriId,
               KwPinValue, KwPinSource, KwType, KwObjectType} :
        StartsWith(attr, kw)
TypeOf(attr) == Drop(attr, IF StartsWith(attr, KwType) THEN 5 ELSE 12)
GoodType(attr) == IsType(attr) /\ TypeOf(attr) \in {Cert, Public, Private}

\* C34: a URI that gives a PIN more than once, in whichever of the two
\* ways, that has an attribute with an unknown key, or a type other than
\* cert, public and private, is rejected; a rejected URI hands back neither
\* a token filter nor a label; and a URI is parsed as it would be without
\* its valid types.
C34_UriRejected ==
    parse.phase = "urireturned" =>
        LET attrs == parse.attrs
            n == Len(attrs)
            plain == SelectSeq(attrs, LAMBDA a : ~GoodType(a))
            uri == UriScheme \o UriOf(plain, ";")
        IN  /\ (\E i, j \in 1..n : i < j /\ GivesPin(attrs[i])
                                         /\ GivesPin(attrs[j])) =>
                  parse.out.rv = 0
            /\ (\E i \in 1..n : ~KnownKey(attrs[i])) => parse.out.rv = 0
            /\ (\E i \in 1..n : IsType(attrs[i]) /\ ~GoodType(attrs[i])) =>
                  parse.out.rv = 0
            /\ parse.out.rv = 0 =>
                  parse.out.p_tok = NullLabel /\ parse.out.label = NullLabel
            /\ LET o == parse_pkcs11_uri(uri, Len(parse.uri) + 1,
                                         Fresh(MAX_PIN_LENGTH + 1))
               IN  o = parse.out

\* A URI with a token, a pin-source and then a pin-value has been rejected,
\* and so has one whose type is none of the three.
C34_Witness ==
    /\ parse.phase = "urireturned"
    /\ Len(parse.attrs) = 3
    /\ StartsWith(parse.attrs[1], KwToken)
    /\ StartsWith(parse.attrs[2], KwPinSource)
    /\ StartsWith(parse.attrs[3], KwPinValue)
    /\ parse.out.rv = 0
    /\ parse.out.p_tok = NullLabel

\* The first line of a file, without its newline.
FirstLine(content) == SubSeq(content, 1, strcspn(content, {10}))

\* The path a pin-source attribute names.
SourcePath(attr) ==
    LET v == Bytes(Drop(attr, 11)) IN
    IF HasFilePrefix(v) THEN Drop(v, 5) ELSE v

\* C35: the PIN of a URI whose one PIN attribute is a pin-source naming a
\* file that can be read, with the file: prefix or without it, is the
\* first line of the file without its newline; a pin-source that starts
\* with '|' is rejected.
C35_PinSource ==
    parse.phase = "urireturned" =>
        \A i \in 1..Len(parse.attrs) :
            LET a == parse.attrs[i] IN
            (StartsWith(a, KwPinSource)
                /\ \A j \in 1..Len(parse.attrs) :
                      j # i => KnownKey(parse.attrs[j])
                                  /\ ~GivesPin(parse.attrs[j])
                                  /\ (IsType(parse.attrs[j])
                                         => GoodType(parse.attrs[j]))) =>
                /\ CharAt(a, 11) = "|" => parse.out.rv = 0
                /\ (CharAt(a, 11) # "|" /\ Readable(SourcePath(a))) =>
                      /\ parse.out.rv = 1
                      /\ SubSeq(parse.out.pin, 1, parse.out.pin_len)
                            = FirstLine(ContentOf(SourcePath(a)))

(***************************************************************************)
(* Claims about the lookup of an identifier                                *)
(***************************************************************************)

\* C40: while and after an identifier that does not parse is looked up,
\* no login has been called, no PIN asked for, no slot matched and no
\* token searched, no session is logged in, the PIN fields of the context
\* are what they were, and the lookup returns NULL after the passes it is
\* to make.
C40_ParseFailureTouchesNothing ==
    (parse.phase \in {"ident", "lookedup"} /\ ~IdentParse(parse.ident).ok) =>
        /\ lk.logins = 0
        /\ lk.prompts = 0
        /\ lk.matched = 0
        /\ lk.searched = {}
        /\ lk.target = 0
        /\ lk.phase # "crashed"
        /\ logged_in = {}
        /\ Ctx(pin, pin_length, forced_pin) = parse.entry
        /\ parse.phase = "lookedup" =>
              lk.obj = 0 /\ lk.passes = (IF force_login THEN 1 ELSE 2)

\* A URI with a pin-value before an attribute of unknown key has gone
\* through both passes in a context that holds another PIN.
C40_Witness ==
    /\ parse.phase = "lookedup"
    /\ parse.attrs = <<KwPinValue \o PinSpelling("1234"), <<"x", "=", "1">>>>
    /\ parse.entry.pin = "9999"
    /\ lk.passes = 2
    /\ \E i \in 1..NumSlots : HasToken(slot_list[i])

=============================================================================
